---- MODULE Spec2Model ----
(***************************************************************************)
(* incant: lifecycle orchestration of Incus instances.                     *)
(*                                                                         *)
(* The model follows src/incant/incant.py (Incant.up, provision, destroy,  *)
(* shell) and src/incant/incus_cli.py (IncusCLI).  One action issues one   *)
(* external command (one subprocess.run) and then runs the Python control  *)
(* flow up to the point where the next external command is issued.  The    *)
(* external tool is the environment: the outcome of every command is       *)
(* chosen nondeterministically; MaxFaults bounds the number of adverse     *)
(* outcomes that an invocation survives ("not yet" answers, failures that  *)
(* are retried or tolerated).  A failure that ends the invocation is       *)
(* always possible.                                                        *)
(***************************************************************************)
EXTENDS Integers, Sequences, FiniteSets, TLC

VARIABLES
    config_data,   \* Incant.config_data: the loaded configuration
    op,            \* the operation invoked: up / provision / destroy / shell
    name,          \* its name argument ("" is None: no name given)
    verbose,       \* is_instance_ready: its second argument
    pc,            \* the external command the invocation issues next
    where,         \* the IncusCLI method that is running
    i,             \* index of the instance the current loop is at
    step,          \* index of the provisioning step being run
    shift,         \* create_shared_folder: "shift=true" still in command
    outer,         \* create_shared_folder: iteration of range(10)
    attempt,       \* create_shared_folder: iteration of range(3)
    log,           \* history: commands issued, methods called, messages
    result,        \* how the invocation ended
    faults,        \* adverse outcomes the external tool produced so far
    budget         \* the adverse outcomes the external tool may produce

vars == <<config_data, op, name, verbose, pc, where, i, step, shift, outer, attempt,
          log, result, faults, budget>>

\* what an invocation never changes
static == <<config_data, op, name, verbose, budget>>

(***************************************************************************)
(* Bounds                                                                  *)
(***************************************************************************)
MaxFaults == 2

(***************************************************************************)
(* Program constants                                                       *)
(***************************************************************************)
OuterAttempts == 10
QuickChecks == 3

(***************************************************************************)
(* Configuration values.  A key of an instance mapping that is absent is   *)
(* "unset"; Get is dict.get with a default.                                *)
(***************************************************************************)
Unset == "unset"

NoName == ""

Get(v, default) == IF v = Unset THEN default ELSE v

Names == <<"a", "b">>

MissingName == "zz"

NoProvision == [form |-> Unset, steps |-> <<>>]

\* the mapping under the key "copy" of a step: the keyword arguments of
\* IncusCLI.copy (incus_cli.py:305-316)
CopyArgs(source, target, uid, gid, mode, recursive, ced, compression) ==
    [source |-> source, target |-> target, uid |-> uid, gid |-> gid,
     mode |-> mode, recursive |-> recursive,
     create_empty_directories |-> ced, compression |-> compression]

NoCopy == CopyArgs(Unset, Unset, Unset, Unset, Unset, Unset, Unset, Unset)

SimpleCopy == CopyArgs("A", "/B", Unset, Unset, Unset, Unset, Unset, Unset)

\* the value under the key "ssh" of a step: a bool ("true" / "false"), or
\* a mapping (bool unset) with the keys authorized_keys, clean_known_hosts
SshArgs(bool, authorized_keys, clean_known_hosts) ==
    [bool |-> bool, authorized_keys |-> authorized_keys,
     clean_known_hosts |-> clean_known_hosts]

NoSsh == SshArgs(Unset, Unset, Unset)

\* a provisioning step is a string (its lines) or a mapping (its keys and
\* the values under "copy" and "ssh")
StrStep(lines) ==
    [form |-> "str", lines |-> lines, keys |-> {}, copy |-> NoCopy, ssh |-> NoSsh]

MapStep(keys, copy, ssh) ==
    [form |-> "map", lines |-> <<>>, keys |-> keys, copy |-> copy, ssh |-> ssh]

CopyStep(c) == MapStep({"copy"}, c, NoSsh)

SshStep(v) == MapStep({"ssh"}, NoCopy, v)

\* a step whose only key is the tag of a registered provisioner
PluginStep(tag) == MapStep({tag}, NoCopy, NoSsh)

CommandText == <<"c1">>

ScriptText == <<"l1", "l2">>

ProvisionValues ==
    { NoProvision,
      [form |-> "list", steps |-> <<>>],
      [form |-> "str",  steps |-> <<StrStep(CommandText)>>],
      [form |-> "list", steps |-> <<CopyStep(SimpleCopy), StrStep(ScriptText)>>] }

\* the instance mappings: an explicit shared_folder: true and a missing
\* image are combined with fewer of the other keys
InstanceDatas ==
    { d \in [ image : {Unset, "img"},
              vm : {Unset, "true"},
              wait : {Unset, "true"},
              provision : ProvisionValues,
              shared_folder : {Unset, "true", "false"} ] :
        /\ d.shared_folder = "true"
              => d.image = "img" /\ d.vm = Unset /\ d.wait = Unset
        /\ d.image = Unset => d.vm = Unset }

\* the instance mappings used where two instances are configured
PairDatas ==
    { d \in InstanceDatas :
        \/ /\ d.vm = Unset /\ d.wait = Unset /\ d.shared_folder = "false"
           /\ d.provision.form = "list" => d.provision.steps # <<>>
           /\ d.image = Unset => d.provision.form = Unset
        \/ /\ d.image = "img" /\ d.vm = Unset /\ d.wait = "true"
           /\ d.shared_folder = Unset /\ d.provision.form = Unset }

Named(n, d) == [name |-> n] @@ d

Configs ==
    { [truthy |-> FALSE, has_instances |-> FALSE, instances |-> <<>>],
      [truthy |-> TRUE,  has_instances |-> FALSE, instances |-> <<>>],
      [truthy |-> TRUE,  has_instances |-> TRUE,  instances |-> <<>>] }
    \cup { [truthy |-> TRUE, has_instances |-> TRUE,
            instances |-> <<Named(Names[1], d)>>] : d \in InstanceDatas }
    \cup { [truthy |-> TRUE, has_instances |-> TRUE,
            instances |-> <<Named(Names[1], d), Named(Names[2], e)>>] :
              d \in PairDatas, e \in PairDatas }

Instances == config_data.instances

NumInstances == Len(Instances)

InstanceNames == { Instances[k].name : k \in 1..NumInstances }

(***************************************************************************)
(* History                                                                 *)
(***************************************************************************)
\* an external command: its verb, the instance, its arguments, its outcome
CmdA(verb, inst, args, res) ==
    [k |-> "cmd", what |-> verb, inst |-> inst, args |-> args, res |-> res]

Cmd(verb, inst, res) == CmdA(verb, inst, <<>>, res)

\* a call of a method of IncusCLI with the arguments after the instance name
CallA(fn, inst, args) ==
    [k |-> "call", what |-> fn, inst |-> inst, args |-> args, res |-> ""]

Call(fn, inst) == CallA(fn, inst, <<>>)

Ret(fn, inst, res) ==
    [k |-> "ret", what |-> fn, inst |-> inst, args |-> <<>>, res |-> res]

Msg(text, inst) ==
    [k |-> "msg", what |-> text, inst |-> inst, args |-> <<>>, res |-> ""]

\* something done on the host without the external tool (a temporary file
\* made or removed, a local program run)
Local(what, inst) ==
    [k |-> "local", what |-> what, inst |-> inst, args |-> <<>>, res |-> ""]

NoResult == [status |-> "none", exc |-> "", about |-> "", ret |-> "None"]

Ok == [status |-> "ok", exc |-> "", about |-> "", ret |-> "None"]

\* the value a method called on its own returns
Returned(v) == [status |-> "ok", exc |-> "", about |-> "", ret |-> v]

Raised(exc, about) == [status |-> "raised", exc |-> exc, about |-> about, ret |-> "None"]

(***************************************************************************)
(* Init: Incant.__init__ has loaded the configuration; nothing is invoked. *)
(***************************************************************************)
Init ==
    /\ config_data \in Configs
    /\ op = "none"
    /\ name = NoName
    /\ verbose = TRUE
    /\ pc = "idle"
    /\ where = ""
    /\ i = 0
    /\ step = 0
    /\ shift = TRUE
    /\ outer = 0
    /\ attempt = 0
    /\ log = <<>>
    /\ result = NoResult
    /\ faults = 0
    /\ budget = MaxFaults


(***************************************************************************)
(* Control: the point the invocation has reached, and the history entries  *)
(* emitted on the way there.                                               *)
(***************************************************************************)
Ctl(p, w, ii, st) ==
    [pc |-> p, where |-> w, i |-> ii, step |-> st, shift |-> TRUE,
     outer |-> 0, attempt |-> 0, result |-> NoResult, emit |-> <<>>]

SfCtl(p, ii, sh, ou, at) ==
    [Ctl(p, "create_shared_folder", ii, 0)
        EXCEPT !.shift = sh, !.outer = ou, !.attempt = at]

Done(res) == [Ctl("done", "", 0, 0) EXCEPT !.result = res]

Emit(entries, k) == [k EXCEPT !.emit = entries \o @]

\* issue one external command (entry) and move to control point k
Take(entry, k) ==
    /\ log' = Append(log, entry) \o k.emit
    /\ pc' = k.pc
    /\ where' = k.where
    /\ i' = k.i
    /\ step' = k.step
    /\ shift' = k.shift
    /\ outer' = k.outer
    /\ attempt' = k.attempt
    /\ result' = k.result

\* move to control point k without issuing a command
Move(k) ==
    /\ log' = log \o k.emit
    /\ pc' = k.pc
    /\ where' = k.where
    /\ i' = k.i
    /\ step' = k.step
    /\ shift' = k.shift
    /\ outer' = k.outer
    /\ attempt' = k.attempt
    /\ result' = k.result

\* an outcome the invocation survives uses up the fault budget
Adverse == /\ faults < budget
           /\ faults' = faults + 1

Nominal == faults' = faults

NameOf(j) == Instances[j].name

(***************************************************************************)
(* Python truth values of the configuration entries                        *)
(***************************************************************************)
Truthy(v) == v \notin {Unset, "false", ""}

\* a provision value is truthy if it is a non-empty string or list
HasProvision(d) ==
    \/ d.provision.form = "str"
    \/ d.provision.form = "list" /\ d.provision.steps # <<>>

\* the condition without its virtual-machine disjunct
FullWait_novm(d) ==
    \/ Truthy(Get(d.wait, "false"))
    \/ HasProvision(d)

\* incant.py:176-180
FullWait(d) ==
    \/ Truthy(Get(d.wait, "false"))
    \/ HasProvision(d)
    \/ Truthy(Get(d.vm, "false"))

\* the shared folder off by default
WantsSharedFolder_off(d) == Truthy(Get(d.shared_folder, "false"))

\* incant.py:194
WantsSharedFolder(d) == Truthy(Get(d.shared_folder, "true"))

\* the membership test left out
InConfig_any(n) == TRUE

\* incant.py:118, 208, 243, 325: name in self.config_data["instances"]
InConfig(n) == n \in InstanceNames

\* the loops taking every configured instance
Targeted_all(j) == TRUE

\* incant.py:125, 160, 248: "if name and instance_name != name: continue"
Targeted(j) == name = NoName \/ NameOf(j) = name

\* the first instance at or after j that the loop does not skip
NextTarget(j) ==
    LET S == { t \in j..NumInstances : Targeted(t) }
    IN  IF S = {} THEN NumInstances + 1
        ELSE CHOOSE t \in S : \A u \in S : t <= u

(***************************************************************************)
(* Exceptions.  IncusCLI._run_command turns subprocess.CalledProcessError  *)
(* into IncusCommandError(message, command=...).                           *)
(***************************************************************************)
\* the class hierarchy of incant/exceptions.py
IsSubclass(c, base) ==
    \/ c = base
    \/ c \in {"ConfigurationError", "InstanceError", "IncusCommandError"}
         /\ base = "IncantError"

\* the stderr attribute of the IncusCommandError that _run_command builds
\* (incus_cli.py:51) for a command whose captured stderr is text: the
\* constructor is not given the text
StderrOf(text) == "None"

AgentNotRunningMsg == "Error: VM agent isn't currently running"

(***************************************************************************)
(* Incant.up, pass 2 (incant.py:158-199), from the end backwards           *)
(***************************************************************************)
PollAgent(j) == Emit(<<Call("is_agent_running", NameOf(j))>>, Ctl("proj", "agent", j, 0))

\* incant.py:158: the second loop
PassWait(j) == IF j > NumInstances THEN Done(Ok) ELSE PollAgent(j)

AfterInstance(j) == PassWait(NextTarget(j + 1))

RECURSIVE ProvStep(_, _)
RECURSIVE ProvisionLoop(_)

\* incant.py:215-235 at the end of one instance's steps
AfterProvisionInstance(j) ==
    IF op = "up" THEN Emit(<<Ret("provision", NameOf(j), "ok")>>, AfterInstance(j))
    ELSE ProvisionLoop(NextTarget(j + 1))

\* the error caught for the instance, and the loop going on to the next
StepRaises_isolated(exc, j) == ProvisionLoop(NextTarget(j + 1))

\* an exception of a step of instance j: nothing in Incant.provision or
\* Incant.up catches it (incant.py:215-235, 158-199)
StepRaises(exc, j) == Done(Raised(exc, NameOf(j)))

\* incus_cli.py:268: "\n" in provision, for a string
Multiline(lines) == Len(lines) > 1

\* incus_cli.py:265-282: IncusCLI.provision(name, st) up to its first
\* command.  For a mapping, "\n" not in st asks for a key, so the mapping
\* takes the single-line branch and subprocess.run refuses it as an
\* argument: TypeError, and no command is issued.
RunProvision(j, s, st) ==
    Emit(<<CallA("incus.provision", NameOf(j), <<st>>)>>,
         IF st.form = "map" THEN StepRaises("TypeError", j)
         ELSE IF Multiline(st.lines)
              THEN Emit(<<Local("mkstemp", NameOf(j))>>,
                        Ctl("prov_push", "provision", j, s))
              ELSE Ctl("prov_exec", "provision", j, s))

\* every step handed to the command and script runner
Dispatch_runner(j, s, st) == RunProvision(j, s, st)

\* incant.py:224-233: the three branches of the loop over the steps
Dispatch(j, s, st) ==
    IF st.form = "map" /\ "copy" \in st.keys
    THEN Emit(<<CallA("copy", NameOf(j), <<st.copy>>)>>,
              Ctl("copy_push", "copy", j, s))
    ELSE IF st.form = "map" /\ "ssh" \in st.keys
         THEN Emit(<<CallA("ssh_setup", NameOf(j), <<st.ssh>>)>>,
                   Ctl("ssh_install", "ssh_setup", j, s))
    ELSE RunProvision(j, s, st)

\* incant.py:219-233: step s of instance j; a provision value that is a
\* string goes to IncusCLI.provision whole
ProvStep(j, s) ==
    LET p == Instances[j].provision
    IN  IF s > Len(p.steps) THEN AfterProvisionInstance(j)
        ELSE IF p.form = "str" THEN RunProvision(j, s, p.steps[s])
        ELSE Dispatch(j, s, p.steps[s])

\* incant.py:215-235: the loop over instances_to_provision
ProvisionLoop(j) ==
    IF j > NumInstances THEN Done(Ok)
    ELSE IF HasProvision(Instances[j])
         THEN Emit(<<Msg("Provisioning instance", NameOf(j))>>, ProvStep(j, 1))
         ELSE Emit(<<Msg("No provisioning found", NameOf(j))>>,
                   ProvisionLoop(NextTarget(j + 1)))

\* provisioning called whether or not the instance has steps
AfterShared_always(j) ==
    Emit(<<Call("provision", NameOf(j)),
           Msg("Provisioning instance", NameOf(j))>>, ProvStep(j, 1))

\* incant.py:197-199
AfterShared(j) ==
    IF HasProvision(Instances[j])
    THEN Emit(<<Call("provision", NameOf(j)),
                Msg("Provisioning instance", NameOf(j))>>, ProvStep(j, 1))
    ELSE AfterInstance(j)

\* incant.py:194-195
AfterReady(j) ==
    IF WantsSharedFolder(Instances[j])
    THEN Emit(<<Call("create_shared_folder", NameOf(j))>>,
              SfCtl("sf_add", j, TRUE, 0, 0))
    ELSE AfterShared(j)

PollReady(j) == Emit(<<Call("is_instance_ready", NameOf(j))>>, Ctl("proj", "ready", j, 0))

\* incant.py:168-192
AfterAgent(j) ==
    IF FullWait(Instances[j]) THEN PollReady(j) ELSE AfterReady(j)

\* incus_cli.py:211-212, 215-216: "if verbose: click.secho(...)"
Say(text, j) == IF verbose THEN <<Msg(text, NameOf(j))>> ELSE <<>>

\* is_instance_ready returns False: the loop that called it sleeps and
\* calls it again (incant.py:185-192)
ReadyFalse(j) ==
    Emit(<<Ret("is_instance_ready", NameOf(j), "false")>>, PollReady(j))

\* is_instance_ready returns True (incus_cli.py:219): the loop of Incant.up
\* is left (incant.py:186-191), or the loop that called the method on its own
ReadyTrue(j) ==
    Emit(<<Ret("is_instance_ready", NameOf(j), "true")>>,
         IF op = "up" THEN AfterReady(j) ELSE Done(Returned("True")))

(***************************************************************************)
(* Incant.up, pass 1 (incant.py:123-154)                                   *)
(***************************************************************************)
\* the first loop left after its first launch
AfterCreate_break(j) == NumInstances + 1

\* after the launch of instance j comes the rest of pass 1, then pass 2
AfterCreate(j) == NextTarget(j + 1)

RECURSIVE PassCreate(_)
PassCreate(j) ==
    IF j > NumInstances THEN PassWait(NextTarget(1))
    ELSE IF ~Truthy(Instances[j].image)
         THEN Emit(<<Msg("Skipping: No image defined", NameOf(j))>>,
                   PassCreate(NextTarget(j + 1)))
         ELSE Emit(<<Call("create_instance", NameOf(j))>>,
                   Ctl("launch", "create_instance", j, 0))

(***************************************************************************)
(* Incant.destroy (incant.py:246-257)                                      *)
(***************************************************************************)
DestroyLoop(j) ==
    IF j > NumInstances THEN Done(Ok)
    ELSE Emit(<<Call("is_instance", NameOf(j))>>, Ctl("proj", "probe", j, 0))

\* incus_cli.py:223-227: the except clause of is_instance
IsInstanceCatches(exc) == IsSubclass(exc, "CalledProcessError")

\* is_instance when a command of get_instance_info raised exc
IsInstanceOnError(j, exc) ==
    IF IsInstanceCatches(exc)
    THEN Emit(<<Ret("is_instance", NameOf(j), "false"),
                Msg("does not exist", NameOf(j))>>,
              DestroyLoop(NextTarget(j + 1)))
    ELSE Emit(<<Ret("is_instance", NameOf(j), "raise")>>,
              Done(Raised(exc, NameOf(j))))


(***************************************************************************)
(* The command line: one operation is invoked per process (cli.py).        *)
(***************************************************************************)
Ops == {"up", "provision", "destroy", "shell"}

NameArgs == {NoName, MissingName} \cup { Names[k] : k \in 1..Len(Names) }

Invoke ==
    /\ pc = "idle"
    /\ \E o \in Ops, n \in NameArgs :
          /\ op' = o
          /\ name' = n
    /\ pc' = "check"
    /\ UNCHANGED <<config_data, verbose, where, i, step, shift, outer, attempt,
                   log, result, faults, budget>>

\* Incant.check_config (incant.py:106-110)
CheckConfig ==
    /\ pc = "check"
    /\ Move(IF ~config_data.truthy
            THEN Done(Raised("ConfigurationError", ""))
            ELSE IF ~config_data.has_instances
                 THEN Done(Raised("ConfigurationError", ""))
                 ELSE Ctl("resolve", "", 0, 0))
    /\ UNCHANGED <<static, faults>>

\* incant.py:118-123
UpResolve ==
    /\ pc = "resolve" /\ op = "up"
    /\ Move(IF name # NoName /\ ~InConfig(name)
            THEN Done(Raised("InstanceError", name))
            ELSE PassCreate(NextTarget(1)))
    /\ UNCHANGED <<static, faults>>

\* incant.py:206-215
ProvisionResolve ==
    /\ pc = "resolve" /\ op = "provision"
    /\ Move(IF name # NoName /\ ~InConfig(name)
            THEN Done(Raised("InstanceError", name))
            ELSE ProvisionLoop(NextTarget(1)))
    /\ UNCHANGED <<static, faults>>

\* incant.py:243-246
DestroyResolve ==
    /\ pc = "resolve" /\ op = "destroy"
    /\ Move(IF name # NoName /\ ~InConfig(name)
            THEN Done(Raised("InstanceError", name))
            ELSE DestroyLoop(NextTarget(1)))
    /\ UNCHANGED <<static, faults>>

\* the first instance picked whenever there is one
AutoSelect_first(n) == n >= 1

\* incant.py:319-323: the instance shell picks when it is given no name
AutoSelect(n) == n = 1

\* incant.py:317-328
ShellResolve ==
    /\ pc = "resolve" /\ op = "shell"
    /\ Move(IF name = NoName /\ ~AutoSelect(NumInstances)
            THEN Done(Raised("InstanceError", ""))
            ELSE LET instance_name == IF name = NoName THEN NameOf(1) ELSE name
                 IN  IF ~InConfig(instance_name)
                     THEN Done(Raised("InstanceError", instance_name))
                     ELSE Emit(<<Call("shell", instance_name)>>,
                               Ctl("shell", "shell",
                                   CHOOSE j \in 1..NumInstances :
                                       NameOf(j) = instance_name, 0)))
    /\ UNCHANGED <<static, faults>>

(***************************************************************************)
(* IncusCLI.create_instance (incus_cli.py:77-103)                          *)
(***************************************************************************)
\* the failure of a launch reported and the first pass going on
LaunchFailed_goes_on(j) == PassCreate(AfterCreate(j))

\* incus_cli.py:103, incant.py:134-154: the launch runs without
\* allow_failure and up catches nothing
LaunchFailed(j) == Done(Raised("IncusCommandError", NameOf(j)))

Launch ==
    /\ pc = "launch"
    /\ \/ /\ Take(Cmd("launch", NameOf(i), "ok"),
                  PassCreate(AfterCreate(i)))
          /\ Nominal
       \/ /\ Take(Cmd("launch", NameOf(i), "fail"), LaunchFailed(i))
          /\ Nominal
    /\ UNCHANGED static

(***************************************************************************)
(* IncusCLI.get_instance_info (incus_cli.py:163-175), called by            *)
(* is_agent_running, is_instance_ready and is_instance                     *)
(***************************************************************************)
\* what the caller does when a command of get_instance_info fails
InfoFailed(j) ==
    IF where = "probe" THEN IsInstanceOnError(j, "IncusCommandError")
    ELSE Done(Raised("IncusCommandError", NameOf(j)))

GetCurrentProject ==
    /\ pc = "proj"
    /\ \/ Take(Cmd("project get-current", NameOf(i), "ok"), Ctl("query", where, i, 0))
       \/ Take(Cmd("project get-current", NameOf(i), "fail"), InfoFailed(i))
    /\ Nominal
    /\ UNCHANGED static

\* incus_cli.py:181: .get("state", {}).get("processes", -2) > 0
AgentRunning(answer) == answer = "procs>0"

\* the agent wait left as soon as the agent is running ("or" for "and")
AfterQuery_or(j, answer) ==
    IF where = "probe"
    THEN Emit(<<Ret("is_instance", NameOf(j), "true"),
                Call("destroy_instance", NameOf(j))>>,
              Ctl("delete", "destroy_instance", j, 0))
    ELSE IF AgentRunning(answer)
         THEN IF where = "agent" THEN AfterAgent(j)
              ELSE Emit(<<Call("is_agent_usable", NameOf(j))>>,
                        Ctl("exec_true", where, j, 0))
         ELSE IF where = "agent" THEN PollAgent(j) ELSE ReadyFalse(j)

\* the caller's next move once the state query has answered
AfterQuery(j, answer) ==
    IF where = "probe"
    THEN Emit(<<Ret("is_instance", NameOf(j), "true"),
                Call("destroy_instance", NameOf(j))>>,
              Ctl("delete", "destroy_instance", j, 0))
    ELSE IF AgentRunning(answer)
         THEN Emit((IF where = "ready"
                    THEN Say("Agent is running, testing if usable...", j)
                    ELSE <<>>) \o <<Call("is_agent_usable", NameOf(j))>>,
                   Ctl("exec_true", where, j, 0))
         ELSE IF where = "agent" THEN PollAgent(j) ELSE ReadyFalse(j)

Query ==
    /\ pc = "query"
    /\ \/ /\ Take(Cmd("query", NameOf(i), "procs>0"), AfterQuery(i, "procs>0"))
          /\ Nominal
       \/ /\ Take(Cmd("query", NameOf(i), "procs<=0"), AfterQuery(i, "procs<=0"))
          /\ IF where = "probe" THEN Nominal ELSE Adverse
       \/ /\ Take(Cmd("query", NameOf(i), "fail"), InfoFailed(i))
          /\ Nominal
    /\ UNCHANGED static

(***************************************************************************)
(* IncusCLI.is_agent_usable (incus_cli.py:183-190)                         *)
(***************************************************************************)
\* "true", "false", or the exception that leaves is_agent_usable
AgentUsable(res, text) ==
    IF res = "ok" THEN "true"
    ELSE IF StderrOf(text) = "None" THEN "AttributeError"
    ELSE IF StderrOf(text) = AgentNotRunningMsg THEN "false"
    ELSE "IncusCommandError"

\* the booted check left out when the second argument is False
AfterExecTrue_fast(j, usable) ==
    IF usable = "true"
    THEN IF where = "agent" THEN AfterAgent(j)
         ELSE IF ~verbose THEN ReadyTrue(j)
         ELSE Emit(Say("Agent is usable, checking if system booted...", j),
                   Ctl("which", "ready", j, 0))
    ELSE IF usable = "false"
         THEN IF where = "agent" THEN PollAgent(j) ELSE ReadyFalse(j)
         ELSE Done(Raised(usable, NameOf(j)))

\* incus_cli.py:213-217 (and incant.py:164-166 for the agent wait)
AfterExecTrue(j, usable) ==
    IF usable = "true"
    THEN IF where = "agent" THEN AfterAgent(j)
         ELSE Emit(Say("Agent is usable, checking if system booted...", j),
                   Ctl("which", "ready", j, 0))
    ELSE IF usable = "false"
         THEN IF where = "agent" THEN PollAgent(j) ELSE ReadyFalse(j)
         ELSE Done(Raised(usable, NameOf(j)))

ExecTrue ==
    /\ pc = "exec_true"
    /\ \/ /\ Take(Cmd("exec true", NameOf(i), "ok"),
                  AfterExecTrue(i, AgentUsable("ok", "")))
          /\ Nominal
       \/ \E text \in {AgentNotRunningMsg, "Error: other"} :
            LET usable == AgentUsable("fail", text)
            IN  /\ Take(Cmd("exec true", NameOf(i),
                            IF text = AgentNotRunningMsg THEN "fail_agent"
                            ELSE "fail"),
                        AfterExecTrue(i, usable))
                /\ IF usable = "false" THEN Adverse ELSE Nominal
    /\ UNCHANGED static

(***************************************************************************)
(* IncusCLI.is_instance_booted (incus_cli.py:192-206)                      *)
(***************************************************************************)
Which ==
    /\ pc = "which"
    /\ \/ Take(Cmd("exec which systemctl", NameOf(i), "ok"),
               Ctl("systemctl", "ready", i, 0))
       \/ Take(Cmd("exec which systemctl", NameOf(i), "fail"),
               Done(Raised("RuntimeError", NameOf(i))))
    /\ Nominal
    /\ UNCHANGED static

\* incus_cli.py:206
Booted(status) == status \in {"running", "degraded"}

\* the exit code of "systemctl is-system-running": zero only for running
StatusExit(status) == IF status = "running" THEN 0 ELSE 1

\* the status command run without allow_failure: a non-zero exit raises
AfterSystemctl_strict(j, status, code) ==
    IF code # 0 THEN Done(Raised("IncusCommandError", NameOf(j)))
    ELSE IF Booted(status) THEN ReadyTrue(j) ELSE ReadyFalse(j)

\* incus_cli.py:199-206: the command runs with allow_failure=True, so its
\* output is returned whatever its exit code, and compared
AfterSystemctl(j, status, code) ==
    IF Booted(status) THEN ReadyTrue(j) ELSE ReadyFalse(j)

Systemctl ==
    /\ pc = "systemctl"
    /\ \E status \in {"running", "degraded", "starting"} :
          /\ Take(CmdA("exec systemctl is-system-running", NameOf(i),
                       <<(IF StatusExit(status) = 0 THEN <<"exit 0">> ELSE <<"exit 1">>)>>,
                       status),
                  AfterSystemctl(i, status, StatusExit(status)))
          /\ IF Booted(status) THEN Nominal ELSE Adverse
    /\ UNCHANGED static


(***************************************************************************)
(* IncusCLI.create_shared_folder (incus_cli.py:105-157)                    *)
(***************************************************************************)
AddVerb(sh) == IF sh THEN "config device add shift=true" ELSE "config device add"

\* the flag left in the command that is retried
WithoutShift_kept(sh) == sh

\* incus_cli.py:126: command.remove("shift=true")
WithoutShift(sh) == FALSE

\* one more iteration than range(10)
LastRound_more(ou) == ou >= OuterAttempts

\* incus_cli.py:132: the iteration that ends "for _ in range(10)"
LastRound(ou) == ou + 1 >= OuterAttempts

\* one quick check more in each round
MoreChecks_four(at) == at < QuickChecks

\* incus_cli.py:134: "for attempt in range(3)", another check follows the
\* failed check number at (counted from 0)
MoreChecks(at) == at + 1 < QuickChecks

\* the last round gives up after its checks, leaving the device alone
AfterChecks_stop(j, sh, ou) ==
    IF LastRound(ou) THEN Done(Raised("InstanceError", ""))
    ELSE SfCtl("sf_remove", j, sh, ou, 0)

\* incus_cli.py:147-154: after the quick checks of any round, the last
\* included, the device is removed
AfterChecks(j, sh, ou) == SfCtl("sf_remove", j, sh, ou, 0)

\* the add after a removal starts over with the flag
ReaddShift_again(sh) == TRUE

\* incus_cli.py:155: the add after a removal runs the list "command" as
\* the first stage left it, with the flag only if it was never removed
ReaddShift(sh) == sh

\* incus_cli.py:141 "return True": back in Incant.up (incant.py:197), or out
\* of the method when it was called on its own
SfReturn(j) == IF op = "up" THEN AfterShared(j) ELSE Done(Returned("True"))

\* incus_cli.py:119-127: the first add, with shift=true
SfAdd ==
    /\ pc = "sf_add"
    /\ \/ /\ Take(Cmd(AddVerb(TRUE), NameOf(i), "ok"), SfCtl("sf_check", i, TRUE, 0, 0))
          /\ Nominal
       \/ /\ Take(Cmd(AddVerb(TRUE), NameOf(i), "fail"),
                  SfCtl("sf_add_retry", i, WithoutShift(TRUE), 0, 0))
          /\ Adverse
    /\ UNCHANGED static

\* incus_cli.py:126-127: the retry without shift=true
SfAddRetry ==
    /\ pc = "sf_add_retry"
    /\ \/ Take(Cmd(AddVerb(shift), NameOf(i), "ok"), SfCtl("sf_check", i, shift, 0, 0))
       \/ Take(Cmd(AddVerb(shift), NameOf(i), "fail"),
               Done(Raised("IncusCommandError", NameOf(i))))
    /\ Nominal
    /\ UNCHANGED static

\* incus_cli.py:134-145: one check of /proc/mounts.  The failed checks of
\* one round of quick checks are one adverse outcome (a mount that is late).
SfCheck ==
    /\ pc = "sf_check"
    /\ \/ /\ Take(Cmd("exec grep /incant /proc/mounts", NameOf(i), "ok"),
                  Emit(<<Ret("create_shared_folder", NameOf(i), "ok")>>,
                       SfReturn(i)))
          /\ Nominal
       \/ /\ Take(Cmd("exec grep /incant /proc/mounts", NameOf(i), "fail"),
                  IF MoreChecks(attempt)
                  THEN SfCtl("sf_check", i, shift, outer, attempt + 1)
                  ELSE AfterChecks(i, shift, outer))
          /\ IF attempt = 0 THEN Adverse ELSE Nominal
    /\ UNCHANGED static

\* incus_cli.py:151-154
SfRemove ==
    /\ pc = "sf_remove"
    /\ \/ Take(Cmd("config device remove", NameOf(i), "ok"),
               SfCtl("sf_readd", i, shift, outer, 0))
       \/ Take(Cmd("config device remove", NameOf(i), "fail"),
               Done(Raised("IncusCommandError", NameOf(i))))
    /\ Nominal
    /\ UNCHANGED static

\* incus_cli.py:155-157: the add at the end of an iteration of range(10)
SfReadd ==
    /\ pc = "sf_readd"
    /\ \/ Take(Cmd(AddVerb(ReaddShift(shift)), NameOf(i), "ok"),
               IF LastRound(outer)
               THEN Done(Raised("InstanceError", ""))
               ELSE SfCtl("sf_check", i, shift, outer + 1, 0))
       \/ Take(Cmd(AddVerb(ReaddShift(shift)), NameOf(i), "fail"),
               Done(Raised("IncusCommandError", NameOf(i))))
    /\ Nominal
    /\ UNCHANGED static

(***************************************************************************)
(* IncusCLI.provision and IncusCLI.copy (incus_cli.py:265-333)             *)
(***************************************************************************)
\* a string of a command line, as the sequence of its pieces: f"{a}{b}"
\* is Str(a) \o Str(b)
Str(x) == <<x>>

\* the step the invocation is at
CurStep == Instances[i].provision.steps[step]

\* tempfile.mkstemp(prefix="incant_") (incus_cli.py:280)
TempPath == "/tmp/incant_x"

\* incus_cli.py:288: ["file", "push", temp_path, f"{name}{temp_path}"]
TempPushCommand(n) ==
    <<Str("file"), Str("push"), Str(TempPath), Str(n) \o Str(TempPath)>>

\* incus_cli.py:294-298: chmod, run and remove the pushed script
ScriptCommand ==
    <<Str("sh"), Str("-c"),
      Str("chmod +x ") \o Str(TempPath) \o Str(" && ") \o Str(TempPath)
        \o Str(" && rm ") \o Str(TempPath)>>

\* incus_cli.py:271-277: a single-line command
ProvExec ==
    /\ pc = "prov_exec"
    /\ \/ Take(CmdA("exec sh -c", NameOf(i), <<CurStep.lines>>, "ok"),
               ProvStep(i, step + 1))
       \/ Take(CmdA("exec sh -c", NameOf(i), <<CurStep.lines>>, "fail"),
               StepRaises("IncusCommandError", i))
    /\ Nominal
    /\ UNCHANGED static

\* incus_cli.py:288: the push of the temporary script; 301-303: the
\* finally clause removes the local file
ProvPush ==
    /\ pc = "prov_push"
    /\ \/ Take(CmdA("file push", NameOf(i), TempPushCommand(NameOf(i)), "ok"),
               Ctl("prov_script_exec", "provision", i, step))
       \/ Take(CmdA("file push", NameOf(i), TempPushCommand(NameOf(i)), "fail"),
               Emit(<<Local("os.remove", NameOf(i))>>,
                    StepRaises("IncusCommandError", i)))
    /\ Nominal
    /\ UNCHANGED static

\* incus_cli.py:291-303: the command succeeds when chmod, the script and rm
\* all do; the finally clause removes the local file either way
ProvScriptExec ==
    /\ pc = "prov_script_exec"
    /\ \/ Take(CmdA("exec sh -c", NameOf(i), ScriptCommand, "ok"),
               Emit(<<Local("os.remove", NameOf(i))>>, ProvStep(i, step + 1)))
       \/ Take(CmdA("exec sh -c", NameOf(i), ScriptCommand, "fail"),
               Emit(<<Local("os.remove", NameOf(i))>>,
                    StepRaises("IncusCommandError", i)))
    /\ Nominal
    /\ UNCHANGED static

\* an option with a value
Opt(flag, v) == IF v # Unset THEN <<Str(flag), Str(v)>> ELSE <<>>

\* an option that is a bare flag
Flag(flag, v) == IF Truthy(v) THEN <<Str(flag)>> ELSE <<>>

\* the target given as it stands, without the instance name
CopyCommand_bare(n, c) ==
    <<Str("file"), Str("push")>>
    \o Opt("--uid", c.uid) \o Opt("--gid", c.gid) \o Opt("--mode", c.mode)
    \o Flag("--recursive", c.recursive)
    \o Flag("--create-empty-directories", c.create_empty_directories)
    \o (IF Get(c.compression, "none") # "none"
        THEN <<Str("--compression"), Str(c.compression)>> ELSE <<>>)
    \o <<Str(c.source), Str(c.target)>>

\* incus_cli.py:319-332: the command IncusCLI.copy builds
CopyCommand(n, c) ==
    <<Str("file"), Str("push")>>
    \o Opt("--uid", c.uid) \o Opt("--gid", c.gid) \o Opt("--mode", c.mode)
    \o Flag("--recursive", c.recursive)
    \o Flag("--create-empty-directories", c.create_empty_directories)
    \o (IF Get(c.compression, "none") # "none"
        THEN <<Str("--compression"), Str(c.compression)>> ELSE <<>>)
    \o <<Str(c.source), Str(n) \o Str(c.target)>>

\* incus_cli.py:333
CopyPush ==
    /\ pc = "copy_push"
    /\ \/ Take(CmdA("file push", NameOf(i), CopyCommand(NameOf(i), CurStep.copy), "ok"),
               ProvStep(i, step + 1))
       \/ Take(CmdA("file push", NameOf(i), CopyCommand(NameOf(i), CurStep.copy), "fail"),
               StepRaises("IncusCommandError", i))
    /\ Nominal
    /\ UNCHANGED static

(***************************************************************************)
(* IncusCLI.ssh_setup (incus_cli.py:335-415) and clean_known_hosts        *)
(***************************************************************************)
InstallCommand == <<Str("sh"), Str("-c"), Str("apt-get update && apt-get -y install ssh")>>

\* why the installation command failed: the guest has no apt-get, or it
\* has and apt-get failed
InstallFailures == {"fail no apt", "fail apt"}

\* incus_cli.py:337-338, 414: a bool stands for {"clean_known_hosts": True}
CleanKnownHosts(v) == IF v.bool # Unset THEN TRUE ELSE Truthy(v.clean_known_hosts)

\* incus_cli.py:414-415, at the end of ssh_setup
SshClean(j, s) ==
    IF CleanKnownHosts(Instances[j].provision.steps[s].ssh)
    THEN Ctl("ssh_known_hosts", "ssh_setup", j, s)
    ELSE Emit(<<Ret("ssh_setup", NameOf(j), "ok")>>, ProvStep(j, s + 1))

\* the except branch, going on with the rest of ssh_setup after the report
InstallFailed_goes_on(j, s) ==
    Emit(<<Msg("Failed to install SSH server", NameOf(j))>>,
         Ctl("ssh_mkdir", "ssh_setup", j, s))

\* incus_cli.py:347-353: the except branch prints the message and returns
InstallFailed(j, s) ==
    Emit(<<Msg("Failed to install SSH server", NameOf(j)),
           Ret("ssh_setup", NameOf(j), "ok")>>,
         ProvStep(j, s + 1))

\* incus_cli.py:341-353: any IncusCommandError of the installation is
\* reported and ssh_setup returns
SshInstall ==
    /\ pc = "ssh_install"
    /\ \/ /\ Take(CmdA("exec sh -c", NameOf(i), InstallCommand, "ok"),
                  Ctl("ssh_mkdir", "ssh_setup", i, step))
          /\ Nominal
       \/ \E res \in InstallFailures :
             /\ Take(CmdA("exec sh -c", NameOf(i), InstallCommand, res),
                     InstallFailed(i, step))
             /\ Adverse
    /\ UNCHANGED static

\* incus_cli.py:356-391: mkdir, then the content for authorized_keys, which
\* is empty when the host has no key file
SshMkdir ==
    /\ pc = "ssh_mkdir"
    /\ \/ \E content \in {"", "keys"} :
             Take(CmdA("exec mkdir", NameOf(i), <<Str("mkdir"), Str("-p"), Str("/root/.ssh")>>, "ok"),
                  IF content # ""
                  THEN Emit(<<Local("mkstemp keys", NameOf(i))>>,
                            Ctl("ssh_push", "ssh_setup", i, step))
                  ELSE SshClean(i, step))
       \/ Take(CmdA("exec mkdir", NameOf(i), <<Str("mkdir"), Str("-p"), Str("/root/.ssh")>>, "fail"),
               StepRaises("IncusCommandError", i))
    /\ Nominal
    /\ UNCHANGED static

KeysPushCommand(n) ==
    <<Str("file"), Str("push"), Str("/tmp/incant_authorized_keys_x"),
      Str(n) \o Str("/root/.ssh/authorized_keys"),
      Str("--uid"), Str("0"), Str("--gid"), Str("0")>>

\* incus_cli.py:393-412
SshPush ==
    /\ pc = "ssh_push"
    /\ \/ Take(CmdA("file push", NameOf(i), KeysPushCommand(NameOf(i)), "ok"),
               Emit(<<Local("os.remove keys", NameOf(i))>>, SshClean(i, step)))
       \/ Take(CmdA("file push", NameOf(i), KeysPushCommand(NameOf(i)), "fail"),
               Emit(<<Local("os.remove keys", NameOf(i))>>,
                    StepRaises("IncusCommandError", i)))
    /\ Nominal
    /\ UNCHANGED static

\* incus_cli.py:229-263: ssh-keygen -R and ssh run on the host; a missing
\* ssh-keygen is raised as IncusCommandError
SshKnownHosts ==
    /\ pc = "ssh_known_hosts"
    /\ \/ Move(Emit(<<Local("ssh-keygen -R", NameOf(i)), Local("ssh", NameOf(i)),
                      Ret("ssh_setup", NameOf(i), "ok")>>,
                    ProvStep(i, step + 1)))
       \/ Move(StepRaises("IncusCommandError", i))
    /\ Nominal
    /\ UNCHANGED static

(***************************************************************************)
(* IncusCLI.destroy_instance (incus_cli.py:159-161): allow_failure=True    *)
(***************************************************************************)
\* the loop of destroy after a delete that raises when the command fails
AfterDelete_strict(j, res) ==
    IF res = "fail" THEN Done(Raised("IncusCommandError", NameOf(j)))
    ELSE DestroyLoop(NextTarget(j + 1))

\* incant.py:246-257: destroy_instance returns whether or not the command
\* failed, and the loop takes the next instance
AfterDelete(j, res) == DestroyLoop(NextTarget(j + 1))

Delete ==
    /\ pc = "delete"
    /\ \/ /\ Take(Cmd("delete --force", NameOf(i), "ok"), AfterDelete(i, "ok"))
          /\ Nominal
       \/ /\ Take(Cmd("delete --force", NameOf(i), "fail"), AfterDelete(i, "fail"))
          /\ Adverse
    /\ UNCHANGED static

(***************************************************************************)
(* IncusCLI.shell (incus_cli.py:418-430): subprocess.run(..., check=True)  *)
(***************************************************************************)
ExitCodes == {0, 1}

\* what IncusCLI.shell does with the exit code of the remote shell
ShellOutcome(code) ==
    IF code # 0 THEN Raised("InstanceError", NameOf(i))
    ELSE Ok

Shell ==
    /\ pc = "shell"
    /\ \E code \in ExitCodes :
          Take(Cmd("shell", NameOf(i), IF code = 0 THEN "exit 0" ELSE "exit 1"),
               Done(ShellOutcome(code)))
    /\ Nominal
    /\ UNCHANGED static

Next ==
    \/ Invoke
    \/ CheckConfig
    \/ UpResolve
    \/ ProvisionResolve
    \/ DestroyResolve
    \/ ShellResolve
    \/ Launch
    \/ GetCurrentProject
    \/ Query
    \/ ExecTrue
    \/ Which
    \/ Systemctl
    \/ SfAdd
    \/ SfAddRetry
    \/ SfCheck
    \/ SfRemove
    \/ SfReadd
    \/ ProvExec
    \/ ProvPush
    \/ ProvScriptExec
    \/ CopyPush
    \/ Delete
    \/ Shell

Spec == Init /\ [][Next]_vars

(***************************************************************************)
(* IncusCLI.create_shared_folder called on its own for one instance.  The  *)
(* external tool may fail the first add and every round of mount checks.   *)
(***************************************************************************)
SfBudget == OuterAttempts + 1

\* a configuration of one instance called n, with nothing but an image
OneInstance(n) ==
    [truthy |-> TRUE, has_instances |-> TRUE,
     instances |-> <<Named(n, [image |-> "img", vm |-> Unset, wait |-> Unset,
                               provision |-> NoProvision,
                               shared_folder |-> Unset])>>]

InitSf ==
    /\ config_data \in { OneInstance(Names[k]) : k \in 1..Len(Names) }
    /\ op = "create_shared_folder"
    /\ name = NoName
    /\ verbose = TRUE
    /\ pc = "sf_add"
    /\ where = "create_shared_folder"
    /\ i = 1
    /\ step = 0
    /\ shift = TRUE
    /\ outer = 0
    /\ attempt = 0
    /\ log = <<Call("create_shared_folder", NameOf(1))>>
    /\ result = NoResult
    /\ faults = 0
    /\ budget = SfBudget

NextSf ==
    \/ SfAdd
    \/ SfAddRetry
    \/ SfCheck
    \/ SfRemove
    \/ SfReadd

SpecSf == InitSf /\ [][NextSf]_vars

(***************************************************************************)
(* The provision command (cli.py:45-53, incant.py:201-235) over            *)
(* configurations with every shape of provisioning step.                   *)
(***************************************************************************)
CopySteps ==
    { CopyStep(CopyArgs("A", "/B", u, g, mo, r, ce, co)) :
        u \in {Unset, "0"}, g \in {Unset, "1000"}, mo \in {Unset, "0644"},
        r \in {Unset, "true", "false"}, ce \in {Unset, "true"},
        co \in {Unset, "gzip"} }

SshSteps ==
    { SshStep(SshArgs(b, Unset, Unset)) : b \in {"true", "false"} }
    \cup { SshStep(SshArgs(Unset, a, c)) :
             a \in {Unset, "keys.pub"}, c \in {Unset, "true", "false"} }

\* a mapping with both keys
CopyAndSsh == MapStep({"copy", "ssh"}, SimpleCopy, SshArgs("true", Unset, Unset))

CoreSteps ==
    { StrStep(CommandText), StrStep(ScriptText), CopyStep(SimpleCopy),
      SshStep(SshArgs("true", Unset, Unset)), PluginStep("llmnr") }

StepLists ==
    { <<a>> : a \in CopySteps \cup SshSteps \cup CoreSteps \cup {CopyAndSsh} }
    \cup { <<a, b>> : a \in CoreSteps, b \in CoreSteps }
    \cup { <<a, b, c>> : a \in {StrStep(CommandText), SshStep(SshArgs("true", Unset, Unset))},
                         b \in {StrStep(ScriptText), SshStep(SshArgs("true", Unset, Unset))},
                         c \in {StrStep(CommandText), CopyStep(SimpleCopy)} }

RichProvisions ==
    { [form |-> "str", steps |-> <<StrStep(t)>>] : t \in {CommandText, ScriptText} }
    \cup { [form |-> "list", steps |-> l] : l \in StepLists }

\* the provision values used where two instances are configured
PairProvisions ==
    { NoProvision,
      [form |-> "list", steps |-> <<StrStep(CommandText)>>],
      [form |-> "list", steps |-> <<StrStep(ScriptText), CopyStep(SimpleCopy)>>],
      [form |-> "list", steps |-> <<SshStep(SshArgs("true", Unset, Unset)),
                                    StrStep(CommandText)>>] }

WithProvision(n, pr) ==
    Named(n, [image |-> "img", vm |-> Unset, wait |-> Unset,
              provision |-> pr, shared_folder |-> Unset])

ProvConfigs ==
    { [truthy |-> TRUE, has_instances |-> TRUE,
       instances |-> <<WithProvision(Names[1], pr)>>] : pr \in RichProvisions }
    \cup { [truthy |-> TRUE, has_instances |-> TRUE,
            instances |-> <<WithProvision(Names[1], pr), WithProvision(Names[2], qr)>>] :
              pr \in PairProvisions, qr \in PairProvisions }

InitProv ==
    /\ config_data \in ProvConfigs
    /\ op = "provision"
    /\ name \in NameArgs
    /\ verbose = TRUE
    /\ pc = "check"
    /\ where = ""
    /\ i = 0
    /\ step = 0
    /\ shift = TRUE
    /\ outer = 0
    /\ attempt = 0
    /\ log = <<>>
    /\ result = NoResult
    /\ faults = 0
    /\ budget = MaxFaults

NextProv ==
    \/ CheckConfig
    \/ ProvisionResolve
    \/ ProvExec
    \/ ProvPush
    \/ ProvScriptExec
    \/ CopyPush
    \/ SshInstall
    \/ SshMkdir
    \/ SshPush
    \/ SshKnownHosts

SpecProv == InitProv /\ [][NextProv]_vars

(***************************************************************************)
(* IncusCLI.is_instance_ready called in a loop until it returns True, as   *)
(* incant.py:185-192 does, with either value of its second argument.       *)
(***************************************************************************)
InitReady ==
    /\ config_data \in { OneInstance(Names[k]) : k \in 1..Len(Names) }
    /\ op = "is_instance_ready"
    /\ name = NoName
    /\ verbose \in BOOLEAN
    /\ pc = "proj"
    /\ where = "ready"
    /\ i = 1
    /\ step = 0
    /\ shift = TRUE
    /\ outer = 0
    /\ attempt = 0
    /\ log = <<Call("is_instance_ready", NameOf(1))>>
    /\ result = NoResult
    /\ faults = 0
    /\ budget = MaxFaults

NextReady ==
    \/ GetCurrentProject
    \/ Query
    \/ ExecTrue
    \/ Which
    \/ Systemctl

SpecReady == InitReady /\ [][NextReady]_vars

(***************************************************************************)
(* create_shared_folder called again for an instance on which it has       *)
(* succeeded.  The external tool keeps the devices of an instance by name: *)
(* it refuses to add a device under a name that is in use and to remove a  *)
(* device that is not there, which is why incus_cli.py:151-155 removes     *)
(* <name>_shared_incant before it adds it again.                           *)
(***************************************************************************)
IsOkCmd(e, verbs, n) == e.k = "cmd" /\ e.what \in verbs /\ e.inst = n /\ e.res = "ok"

AddVerbs == {AddVerb(TRUE), AddVerb(FALSE)}

\* the number of devices called <n>_shared_incant that instance n has
Attached(n) ==
    Cardinality({ k \in 1..Len(log) : IsOkCmd(log[k], AddVerbs, n) })
    - Cardinality({ k \in 1..Len(log) :
                      IsOkCmd(log[k], {"config device remove"}, n) })

\* the outcome of the command just issued agrees with the devices present
DeviceRule ==
    LET e == log'[Len(log) + 1]
    IN  /\ IsOkCmd(e, AddVerbs, e.inst) => Attached(e.inst) = 0
        /\ IsOkCmd(e, {"config device remove"}, e.inst) => Attached(e.inst) = 1

CallsOf(fn, n) == Cardinality({ k \in 1..Len(log) : log[k] = Call(fn, n) })

\* the second call, made once the first has returned True
IdemAgain ==
    /\ pc = "done"
    /\ result = Returned("True")
    /\ CallsOf("create_shared_folder", NameOf(1)) = 1
    /\ Move(Emit(<<Call("create_shared_folder", NameOf(1))>>,
                 SfCtl("sf_add", 1, TRUE, 0, 0)))
    /\ Nominal
    /\ UNCHANGED static

IdemAdd == SfAdd /\ DeviceRule

IdemAddRetry == SfAddRetry /\ DeviceRule

IdemCheck == SfCheck

IdemRemove == SfRemove /\ DeviceRule

IdemReadd == SfReadd /\ DeviceRule

NextIdem ==
    \/ IdemAdd
    \/ IdemAddRetry
    \/ IdemCheck
    \/ IdemRemove
    \/ IdemReadd
    \/ IdemAgain

SpecIdem == InitSf /\ [][NextIdem]_vars

TypeOK ==
    /\ pc \in {"idle", "check", "resolve", "launch", "proj", "query", "exec_true",
               "which", "systemctl", "sf_add", "sf_add_retry", "sf_check",
               "sf_remove", "sf_readd", "prov_exec", "prov_push",
               "prov_script_exec", "copy_push", "ssh_install", "ssh_mkdir",
               "ssh_push", "ssh_known_hosts", "delete", "shell", "validate",
               "run", "dump", "init", "done", "exited"}
    /\ faults \in 0..budget
    /\ outer \in 0..OuterAttempts
    /\ attempt \in 0..(QuickChecks - 1)
    /\ (pc \in {"done", "exited"}) = (result.status # "none")


(***************************************************************************)
(* Properties                                                              *)
(***************************************************************************)
Idx == 1..Len(log)

IsCmd(k) == log[k].k = "cmd"

IsLaunch(k) == IsCmd(k) /\ log[k].what = "launch"

\* the commands of is_agent_running, is_agent_usable and is_instance_ready
IsReadinessQuery(k) ==
    IsCmd(k) /\ log[k].what \in {"project get-current", "query", "exec true",
                                "exec which systemctl",
                                "exec systemctl is-system-running"}

IsDeviceAdd(k) ==
    IsCmd(k) /\ log[k].what \in {"config device add shift=true", "config device add"}

IsProvisionCmd(k) == IsCmd(k) /\ log[k].what \in {"exec sh -c", "file push"}

ValidConfig == config_data.truthy /\ config_data.has_instances

Targets == { j \in 1..NumInstances : name = NoName \/ Instances[j].name = name }

Count(P(_)) == Cardinality({ k \in Idx : P(k) })

\* a poll before position k saw the agent of n running and usable
AgentSeenBefore(n, k) ==
    \E j \in 1..(k - 1) :
        /\ j + 2 < k
        /\ log[j] = Cmd("query", n, "procs>0")
        /\ log[j + 1] = Call("is_agent_usable", n)
        /\ log[j + 2] = Cmd("exec true", n, "ok")

\* C1: in up, when a readiness query is issued every targeted instance with
\* an image has had its launch command issued, and no launch follows a
\* readiness query.
C1_LaunchesBeforeQueries ==
    op = "up" =>
        LET queries == { k \in Idx : IsReadinessQuery(k) }
            launches == { k \in Idx : IsLaunch(k) }
        IN  queries # {} =>
              /\ \A j \in Targets : Truthy(Instances[j].image) =>
                    \E m \in launches : log[m].inst = NameOf(j)
              /\ \A m \in launches : \A k \in queries : m < k

C1_Witness ==
    /\ op = "up" /\ name = NoName
    /\ Count(IsLaunch) = 2
    /\ \E k \in Idx : IsReadinessQuery(k) /\ log[k].inst = NameOf(2)

\* C2: in up, a device add for an instance and a provisioning command for
\* an instance come only after a poll saw its agent running and usable; the
\* full-boot wait of an instance comes before its device add; provisioning
\* commands come only after create_shared_folder returned (when the shared
\* folder is enabled) and after the full-boot wait returned true.
C2_StageOrder ==
    op = "up" =>
        \A k \in Idx :
            /\ IsDeviceAdd(k) =>
                  /\ AgentSeenBefore(log[k].inst, k)
                  /\ \A m \in Idx :
                        log[m] = Call("is_instance_ready", log[k].inst) => m < k
            /\ IsProvisionCmd(k) =>
                  /\ AgentSeenBefore(log[k].inst, k)
                  /\ \E m \in 1..(k - 1) :
                        log[m] = Ret("is_instance_ready", log[k].inst, "true")
                  /\ \A j \in Targets :
                        (NameOf(j) = log[k].inst /\ Get(Instances[j].shared_folder, "true") = "true")
                        => \E m \in 1..(k - 1) :
                              log[m] = Ret("create_shared_folder", log[k].inst, "ok")

C2_Witness ==
    /\ op = "up"
    /\ \E k \in Idx :
          /\ IsProvisionCmd(k)
          /\ \E m \in 1..(k - 1) : IsDeviceAdd(m) /\ log[m].inst = log[k].inst
          /\ \E m \in 1..(k - 1) : log[m] = Cmd("query", log[k].inst, "procs<=0")

\* the condition of the full-boot wait as the claim states it
C3_Condition(d) ==
    \/ d.wait = "true"
    \/ d.provision.steps # <<>>
    \/ d.vm = "true"

\* C3: in up, is_instance_ready is called for an instance only if wait is
\* true, or it has provisioning steps, or it is a virtual machine; and it is
\* called for every such instance whose agent wait has ended.
C3_FullWaitIff ==
    op = "up" =>
        \A j \in Targets :
            LET n == NameOf(j)
                entered == \E k \in Idx : log[k] = Call("is_instance_ready", n)
                waited == \E k \in Idx : log[k] = Cmd("exec true", n, "ok")
            IN  /\ entered => C3_Condition(Instances[j])
                /\ (waited /\ C3_Condition(Instances[j])) => entered
                /\ ~C3_Condition(Instances[j]) =>
                      \A k \in Idx : ~(IsCmd(k) /\ log[k].inst = n
                                        /\ log[k].what \in {"exec which systemctl",
                                             "exec systemctl is-system-running"})

C3_Witness ==
    /\ op = "up" /\ pc = "done" /\ result.status = "ok"
    /\ \E j \in Targets :
          /\ Instances[j].vm = "true" /\ Instances[j].wait = Unset
          /\ ~HasProvision(Instances[j])
          /\ \E k \in Idx : log[k] = Call("is_instance_ready", NameOf(j))

\* C4: in up, create_shared_folder is never called for an instance whose
\* shared_folder is false, at most once for any instance, and exactly once
\* for every targeted instance whose shared_folder is true or unset when up
\* completes.
C4_SharedFolderOnce ==
    op = "up" =>
        \A j \in 1..NumInstances :
            LET n == NameOf(j)
                calls == Cardinality({ k \in Idx : log[k] = Call("create_shared_folder", n) })
                on == Instances[j].shared_folder \in {Unset, "true"}
            IN  /\ calls <= 1
                /\ (~on \/ j \notin Targets) => calls = 0
                /\ (on /\ j \in Targets /\ result.status = "ok") => calls = 1

C4_Witness ==
    /\ op = "up" /\ pc = "done" /\ result.status = "ok"
    /\ \E j \in Targets :
          /\ Instances[j].shared_folder = Unset
          /\ \E k \in Idx : log[k] = Call("create_shared_folder", NameOf(j))

\* the commands the steps of a provision value issue, in order
RECURSIVE StepVerbs(_)
StepVerbs(steps) ==
    IF steps = <<>> THEN <<>>
    ELSE (IF Head(steps).form = "str" /\ Len(Head(steps).lines) > 1
          THEN <<"file push", "exec sh -c">>
          ELSE IF "copy" \in Head(steps).keys THEN <<"file push">>
          ELSE <<"exec sh -c">>) \o StepVerbs(Tail(steps))

\* the provisioning commands issued to instance n, in order
RECURSIVE ProvisionVerbs(_, _)
ProvisionVerbs(n, k) ==
    IF k = 0 THEN <<>>
    ELSE ProvisionVerbs(n, k - 1)
         \o (IF IsProvisionCmd(k) /\ log[k].inst = n THEN <<log[k].what>> ELSE <<>>)

\* C5: in up, provisioning is never run for an instance without steps, at
\* most once for any instance, and when up completes it has run exactly once
\* for every targeted instance with steps, issuing the commands of that
\* instance's own steps to that instance.
C5_ProvisionOnce ==
    op = "up" =>
        \A j \in 1..NumInstances :
            LET n == NameOf(j)
                calls == Cardinality({ k \in Idx : log[k] = Call("provision", n) })
                has == Instances[j].provision.steps # <<>>
            IN  /\ calls <= 1
                /\ (~has \/ j \notin Targets) => calls = 0
                /\ (has /\ j \in Targets /\ result.status = "ok") =>
                      /\ calls = 1
                      /\ ProvisionVerbs(n, Len(log)) = StepVerbs(Instances[j].provision.steps)

C5_Witness ==
    /\ op = "up" /\ pc = "done" /\ result.status = "ok"
    /\ \E j \in Targets :
          /\ Len(Instances[j].provision.steps) = 2
          /\ \E k \in Idx : log[k] = Ret("provision", NameOf(j), "ok")

\* C6: up, provision, destroy and shell given a name that is not a
\* configured instance issue no external command and end with InstanceError
\* naming that instance.
C6_UnknownName ==
    (ValidConfig /\ op \in {"up", "provision", "destroy", "shell"}
       /\ name # NoName /\ name \notin InstanceNames) =>
        /\ \A k \in Idx : ~IsCmd(k)
        /\ pc = "done" => result = Raised("InstanceError", name)
        /\ pc \in {"check", "resolve", "done"}

C6_Witness ==
    /\ ValidConfig /\ op = "destroy" /\ NumInstances = 1
    /\ name = Names[2]
    /\ pc = "done" /\ result = Raised("InstanceError", name)

\* C7: shell without a name issues the shell command to the only configured
\* instance when exactly one is configured, and otherwise ends with
\* InstanceError without issuing any command.
C7_ShellAutoSelect ==
    (ValidConfig /\ op = "shell" /\ name = NoName /\ pc = "done") =>
        IF NumInstances = 1
        THEN /\ Cardinality({ k \in Idx : IsCmd(k) }) = 1
             /\ \E k \in Idx : IsCmd(k) /\ log[k].what = "shell"
                                /\ log[k].inst = NameOf(1)
        ELSE /\ result.status = "raised" /\ result.exc = "InstanceError"
             /\ \A k \in Idx : ~IsCmd(k)

C7_Witness ==
    /\ ValidConfig /\ op = "shell" /\ name = NoName /\ pc = "done"
    /\ NumInstances = 1
    /\ \E k \in Idx : log[k] = Cmd("shell", NameOf(1), "exit 0")

\* C8: opening a shell does not raise when the remote shell exits non-zero,
\* and returns the exit code of the remote shell.
C8_ShellNonZero ==
    (op = "shell" /\ pc = "done"
       /\ \E k \in Idx : IsCmd(k) /\ log[k].what = "shell" /\ log[k].res = "exit 1") =>
        /\ result.status = "ok"
        /\ result.ret = "1"

\* C9: destroy issues the delete command once for an instance the probe
\* finds, and for an instance whose state query fails it reports "does not
\* exist" and issues no delete command.
C9_DestroyProbe ==
    op = "destroy" =>
        \A j \in 1..NumInstances :
            LET n == NameOf(j)
                deletes == Cardinality({ k \in Idx : IsCmd(k) /\ log[k].what = "delete --force"
                                                      /\ log[k].inst = n })
            IN  /\ (\E k \in Idx : log[k] = Ret("is_instance", n, "true")) =>
                      (pc = "delete" /\ i = j /\ deletes = 0) \/ deletes = 1
                /\ (\E k \in Idx : log[k] = Cmd("query", n, "fail")) =>
                      /\ deletes = 0
                      /\ \E k \in Idx : log[k] = Msg("does not exist", n)

\* C10: is_instance returns false, and does not raise, when the state query
\* fails, and returns true when it succeeds.
C10_ProbeNeverRaises ==
    op = "destroy" =>
        \A k \in Idx :
            /\ log[k] = Cmd("query", log[k].inst, "fail") =>
                  log[k + 1] = Ret("is_instance", log[k].inst, "false")
            /\ (IsCmd(k) /\ log[k].what = "query" /\ log[k].res # "fail") =>
                  log[k + 1] = Ret("is_instance", log[k].inst, "true")

(***************************************************************************)
(* Properties of create_shared_folder                                      *)
(***************************************************************************)
IsMountCheck(k) == IsCmd(k) /\ log[k].what = "exec grep /incant /proc/mounts"

IsDeviceRemove(k) == IsCmd(k) /\ log[k].what = "config device remove"

\* the external commands issued so far for instance n, in order
CmdsOf(n) == SelectSeq(log, LAMBDA e : e.k = "cmd" /\ e.inst = n)

\* C11: when the add with the id-shifting option fails, the command issued
\* next succeeds and the one after it succeeds too, these are the add
\* without the option and the first mount check, and the establisher has
\* reported success after exactly two adds, one mount check and no removal.
C11_FallbackThenMounted ==
    \A n \in InstanceNames :
        LET c == CmdsOf(n)
        IN  (/\ Len(c) >= 3
             /\ c[1] = Cmd("config device add shift=true", n, "fail")
             /\ c[2].res = "ok"
             /\ c[3].res = "ok")
            => /\ c[2].what = "config device add"
               /\ c[3].what = "exec grep /incant /proc/mounts"
               /\ Ret("create_shared_folder", n, "ok") \in { log[k] : k \in Idx }
               /\ result = Returned("True")
               /\ Count(IsDeviceAdd) = 2
               /\ Count(IsMountCheck) = 1
               /\ Count(IsDeviceRemove) = 0

C11_Witness ==
    /\ pc = "done"
    /\ result = Returned("True")
    /\ Len(CmdsOf(NameOf(1))) = 3
    /\ CmdsOf(NameOf(1))[1] = Cmd("config device add shift=true", NameOf(1), "fail")

IsAddOrRemove(k) == IsDeviceAdd(k) \/ IsDeviceRemove(k)

\* every add and removal so far succeeded and no mount check did
MountNeverSeen ==
    /\ \A k \in Idx : IsAddOrRemove(k) => log[k].res = "ok"
    /\ \A k \in Idx : IsMountCheck(k) => log[k].res = "fail"

\* C12: while every add and removal succeeds and no mount check does, the
\* establisher never reports success, issues at most 10 times 3 mount checks
\* and 10 removals, and when it stops it has made exactly 10 outer attempts
\* of 3 checks each and fails with InstanceError.
C12_Exhaustion ==
    MountNeverSeen
    => /\ result.status # "ok"
       /\ \A k \in Idx : log[k].k = "ret" => log[k].res # "ok"
       /\ Count(IsMountCheck) <= 10 * 3
       /\ Count(IsDeviceRemove) <= 10
       /\ pc = "done" => /\ result = Raised("InstanceError", "")
                         /\ Count(IsMountCheck) = 10 * 3
                         /\ Count(IsDeviceRemove) = 10

C12_Witness ==
    /\ MountNeverSeen
    /\ pc = "done"
    /\ result.exc = "InstanceError"
    /\ Count(IsMountCheck) = 30

\* C13: create_shared_folder is idempotent: called again for an instance on
\* which it has succeeded (device attached, /incant mounted), it succeeds
\* again and the instance has exactly one shared device.
C13_Idempotent ==
    (CallsOf("create_shared_folder", NameOf(1)) = 2 /\ pc = "done")
    => /\ result = Returned("True")
       /\ Attached(NameOf(1)) = 1

\* what the second call does instead: both adds are refused and the
\* IncusCommandError of the second leaves the method; the device of the
\* first call stays
C13_SecondCallRaises ==
    (CallsOf("create_shared_folder", NameOf(1)) = 2 /\ pc = "done")
    => /\ result = Raised("IncusCommandError", NameOf(1))
       /\ Attached(NameOf(1)) = 1

(***************************************************************************)
(* Properties of is_instance_ready                                         *)
(***************************************************************************)
IsBootedCheck(k) ==
    IsCmd(k) /\ log[k].what \in {"exec which systemctl",
                                 "exec systemctl is-system-running"}

\* position k ends a call of is_instance_ready that returned True
ReturnsTrueAt(k) == log[k].k = "ret" /\ log[k].what = "is_instance_ready"
                    /\ log[k].res = "true"

\* C14 as stated: with its second argument False the readiness check
\* returns True as soon as the agent is running and usable, and never
\* invokes the booted check.
C14_TwoStagesWhenFalse ==
    ~verbose
    => /\ \A k \in Idx : ~IsBootedCheck(k)
       /\ \A k \in Idx :
             (log[k] = Cmd("exec true", NameOf(1), "ok") /\ k < Len(log))
             => ReturnsTrueAt(k + 1)

\* C14 amended: whatever its second argument, once the agent is running and
\* usable the readiness check invokes the booted check next, and it returns
\* True only straight after the booted check found the system running or
\* degraded; the argument decides nothing but the progress messages.
C14_BootedAlwaysChecked ==
    /\ \A k \in Idx :
          (log[k] = Cmd("exec true", NameOf(1), "ok") /\ k < Len(log))
          => \/ log[k + 1].k = "msg" /\ k + 1 = Len(log)
             \/ \E m \in (k + 1)..(k + 2) :
                   /\ m <= Len(log)
                   /\ log[m].k = "cmd" /\ log[m].what = "exec which systemctl"
                   /\ \A q \in (k + 1)..(m - 1) : log[q].k = "msg"
    /\ \A k \in Idx :
          ReturnsTrueAt(k)
          => /\ k > 2
             /\ log[k - 1].k = "cmd"
             /\ log[k - 1].what = "exec systemctl is-system-running"
             /\ log[k - 1].res \in {"running", "degraded"}
    /\ \A k \in Idx : log[k].k = "msg" => verbose

C14_Witness ==
    /\ op = "is_instance_ready"
    /\ ~verbose
    /\ result = Returned("True")
    /\ \E k \in Idx : IsBootedCheck(k)

(***************************************************************************)
(* Properties of provisioning                                              *)
(***************************************************************************)
\* temporary scripts on the host: made by mkstemp and not removed yet
LocalTemps ==
    Cardinality({ k \in Idx : log[k].k = "local" /\ log[k].what = "mkstemp" })
    - Cardinality({ k \in Idx : log[k].k = "local" /\ log[k].what = "os.remove" })

\* copies of a temporary script in instance n: pushed, and not removed by
\* the rm at the end of a script command that succeeded
RemoteTemps(n) ==
    Cardinality({ k \in Idx : log[k] = CmdA("file push", n, TempPushCommand(n), "ok") })
    - Cardinality({ k \in Idx : log[k] = CmdA("exec sh -c", n, ScriptCommand, "ok") })

\* IncusCLI.provision is running a multi-line script
InScript == pc \in {"prov_push", "prov_script_exec"}

\* C15: once the runner of a multi-line script has returned or raised,
\* neither the temporary file on the host nor its copy in the instance
\* remains, whether the script succeeded, the push failed or the execution
\* failed.
C15_ScriptCleanup ==
    ~InScript
    => /\ LocalTemps = 0
       /\ \A n \in InstanceNames : RemoteTemps(n) = 0

\* what holds on every exit path: the file on the host is removed, and a
\* copy stays in the instance exactly when the script command failed
C15_LocalCleanup ==
    ~InScript
    => /\ LocalTemps = 0
       /\ \A n \in InstanceNames :
             RemoteTemps(n) = IF CmdA("exec sh -c", n, ScriptCommand, "fail")
                                  \in { log[k] : k \in Idx }
                              THEN 1 ELSE 0

\* the options a copy mapping provides, each as it is written on a command
\* line
ProvidedOptions(c) ==
    { <<Str(o[1]), Str(o[2])>> :
        o \in { x \in { <<"--uid", c.uid>>, <<"--gid", c.gid>>, <<"--mode", c.mode>>,
                        <<"--compression", c.compression>> } : x[2] # Unset } }
    \cup { <<Str(f[1])>> :
             f \in { x \in { <<"--recursive", c.recursive>>,
                             <<"--create-empty-directories",
                               c.create_empty_directories>> } : x[2] = "true" } }

\* the pieces of command line a that options take up
OptionsLength(c) ==
    2 * Cardinality({ v \in {<<1, c.uid>>, <<2, c.gid>>, <<3, c.mode>>,
                              <<4, c.compression>>} : v[2] # Unset })
    + Cardinality({ v \in {<<1, c.recursive>>, <<2, c.create_empty_directories>>} :
                      v[2] = "true" })

\* o is written in a between its two leading and its two trailing pieces
Carries(a, o) ==
    \E q \in 3..(Len(a) - 2) :
        /\ q + Len(o) - 1 <= Len(a) - 2
        /\ SubSeq(a, q, q + Len(o) - 1) = o

IsCopyCall(k) == log[k].k = "call" /\ log[k].what = "copy"

\* C16: a copy step with source A and target B issues one file push, whose
\* command line ends with A and with B qualified by the instance name and
\* carries the uid, gid, mode, recursive and create-empty-directories
\* options that the step provides and nothing more; no other command is
\* issued for the step, and none is executed in the instance.
C16_CopyOnePush ==
    \A k \in Idx :
        (IsCopyCall(k) /\ k < Len(log))
        => LET c == log[k].args[1]
               n == log[k].inst
               e == log[k + 1]
               a == e.args
           IN  /\ e.k = "cmd" /\ e.what = "file push" /\ e.inst = n
               /\ Len(a) = 4 + OptionsLength(c)
               /\ a[1] = Str("file") /\ a[2] = Str("push")
               /\ a[Len(a) - 1] = Str(c.source)
               /\ a[Len(a)] = <<n, c.target>>
               /\ \A o \in ProvidedOptions(c) : Carries(a, o)
               /\ k + 2 <= Len(log) => log[k + 2].k # "cmd"

C16_Witness ==
    /\ pc = "done" /\ result.status = "ok"
    /\ \E k \in Idx :
          /\ IsCopyCall(k)
          /\ log[k].args[1].uid = "0" /\ log[k].args[1].mode = "0644"
          /\ log[k].args[1].recursive = "true"
          /\ log[k + 1].res = "ok"

StepBehaviours == {"copy", "ssh_setup", "incus.provision"}

\* the behaviours invoked so far for the steps of instance n, in order
StepCalls(n) ==
    SelectSeq(log, LAMBDA e : e.k = "call" /\ e.inst = n /\ e.what \in StepBehaviours)

\* C17: the q-th behaviour invoked for an instance is the one behaviour
\* that the shape of its q-th step selects: copy, with the mapping under
\* the key, for a mapping with the key copy; the remote-access setup for a
\* mapping with the key ssh; the command and script runner, with the
\* instance name and the text, for a string.  No step is dispatched twice.
C17_DispatchByShape ==
    \A j \in 1..NumInstances :
        LET n == NameOf(j)
            p == Instances[j].provision
            calls == StepCalls(n)
        IN  /\ Len(calls) <= Len(p.steps)
            /\ \A q \in 1..Len(calls) :
                  LET st == p.steps[q]
                  IN  IF st.form = "str"
                      THEN calls[q] = CallA("incus.provision", n, <<st>>)
                      ELSE IF st.keys = {"copy"}
                           THEN calls[q] = CallA("copy", n, <<st.copy>>)
                      ELSE IF st.keys = {"ssh"}
                           THEN calls[q] = CallA("ssh_setup", n, <<st.ssh>>)
                      ELSE IF st.keys = {"copy", "ssh"}
                           THEN calls[q] \in {CallA("copy", n, <<st.copy>>),
                                              CallA("ssh_setup", n, <<st.ssh>>)}
                      ELSE TRUE

C17_Witness ==
    /\ pc = "done" /\ result.status = "ok"
    /\ \E j \in 1..NumInstances :
          { StepCalls(NameOf(j))[q].what : q \in 1..Len(StepCalls(NameOf(j))) }
          = StepBehaviours

\* the tags of the registered provisioners used as the only key of a step
\* (provisioners/__init__.py:1-7; tests/test_provision_manager.py:30)
RegisteredTags == {"llmnr"}

IsPluginStep(st) ==
    st.form = "map" /\ Cardinality(st.keys) = 1 /\ st.keys \subseteq RegisteredTags

\* C18: a step that is a mapping whose only key is the tag of a registered
\* provisioner is never handed to the command and script runner as its
\* script text.
C18_PluginNotRunAsScript ==
    \A k \in Idx :
        (log[k].k = "call" /\ log[k].what = "incus.provision")
        => ~IsPluginStep(log[k].args[1])

\* the outcomes of a command that are a failure of the step that issued it;
\* a guest without apt-get is the case the remote-access setup reports and
\* skips
StepFailed(e) == e.k = "cmd" /\ e.res \notin {"ok", "fail no apt"}

\* C19: the steps of an instance are started in the order of its list, one
\* after the other has completed; once a command of a step has failed the
\* invocation has ended with the error, and no step is started and no
\* command (so no undo) is issued after it.
C19_OrderAndAbort ==
    /\ \A j \in 1..NumInstances :
          LET calls == StepCalls(NameOf(j))
              steps == Instances[j].provision.steps
          IN  /\ Len(calls) <= Len(steps)
              /\ \A q \in 1..Len(calls) :
                    calls[q].args[1] \in {steps[q], steps[q].copy, steps[q].ssh}
    /\ \A k \in Idx :
          StepFailed(log[k])
          => /\ pc = "done" /\ result.status = "raised"
             /\ \A m \in (k + 1)..Len(log) : log[m].k \notin {"cmd", "call"}

\* the instance, if any, on which the invocation raised
FailedOn(f) == result.status = "raised" /\ result.about = NameOf(f)
               /\ result.exc # "InstanceError"

\* every step of instance j has been run and none has raised
AllStepsRun(j) ==
    /\ Len(StepCalls(NameOf(j))) = Len(Instances[j].provision.steps)
    /\ \A k \in Idx : (log[k].k = "cmd" /\ log[k].inst = NameOf(j))
                        => log[k].res # "fail"

NothingRun(j) ==
    \A k \in Idx : log[k].inst = NameOf(j) => log[k].k \notin {"cmd", "call"}

\* C20 as stated: when a step fails on one instance, every other targeted
\* instance still has all its steps run.
C20_SiblingsUnaffected ==
    pc = "done"
    => \A f \in Targets, j \in Targets :
          (FailedOn(f) /\ j # f) => AllStepsRun(j)

\* C20 amended: a failed command of a step (the installation command of the
\* remote-access setup apart, which is reported and skipped) ends the
\* whole invocation with the error: nothing is run after it, the targeted
\* instances earlier in the order have had all their steps run, and
\* nothing is run for the instances later in the order.
C20_FailureEndsInvocation ==
    /\ \A k \in Idx :
          (log[k].k = "cmd" /\ log[k].res = "fail")
          => /\ pc = "done" /\ result.status = "raised"
             /\ result.about = log[k].inst
             /\ \A m \in (k + 1)..Len(log) : log[m].k \notin {"cmd", "call"}
    /\ \A f \in Targets, j \in Targets :
          FailedOn(f)
          => /\ j < f => AllStepsRun(j)
             /\ j > f => NothingRun(j)

C20_Witness ==
    /\ pc = "done"
    /\ NumInstances = 2 /\ name = NoName
    /\ FailedOn(1)
    /\ \E k \in Idx : log[k].k = "cmd" /\ log[k].res = "fail"
    /\ HasProvision(Instances[2])
    /\ NothingRun(2)

\* ---------------------------------------------------------------------
\* Errors of external commands during up and provision

\* position of an instance name in the target order (0 for no instance)
PosOf(n) == IF \E j \in 1..NumInstances : NameOf(j) = n
            THEN CHOOSE j \in 1..NumInstances : NameOf(j) = n
            ELSE 0

\* C21: when an external command fails while provision is processing an
\* instance (a guest without apt-get apart, which is the one tolerated
\* case), the error ends the whole command: the invocation has raised,
\* and no external command is issued afterwards for any instance later in
\* the target order.
C21_ErrorEndsCommand ==
    \A k \in Idx :
        StepFailed(log[k])
        => /\ pc = "done" /\ result.status = "raised"
           /\ \A m \in (k + 1)..Len(log) :
                 log[m].k = "cmd" => PosOf(log[m].inst) <= PosOf(log[k].inst)

\* ---------------------------------------------------------------------
\* Validation before the instance operations

\* some configured instance has no image
MissingImage == \E j \in 1..NumInstances : Instances[j].image = Unset

\* C22: when some configured instance is statically invalid (it has no
\* image), up issues no external command for any instance and ends with
\* a configuration error.
C22_InvalidAbortsFirst ==
    (op = "up" /\ ValidConfig /\ MissingImage /\ Targets # {})
    => /\ \A k \in Idx : ~IsCmd(k)
       /\ pc = "done" => /\ result.status = "raised"
                         /\ result.exc = "ConfigurationError"

(***************************************************************************)
(* ConfigManager.validate_config (config_manager.py:102-128) applied to    *)
(* configurations with well-formed and malformed instances and             *)
(* provisioning values.                                                    *)
(***************************************************************************)
AcceptedFields ==
    {"image", "vm", "profiles", "config", "devices", "network", "type",
     "wait", "provision", "shared_folder"}

\* the keys of an instance mapping
Fields(inst) ==
    { f \in DOMAIN inst \ {"name"} :
        IF f = "provision" THEN inst.provision.form # Unset ELSE inst[f] # Unset }

RECURSIVE ValidateFrom(_, _)
ValidateFrom(cfg, j) ==
    IF j > Len(cfg.instances) THEN Ok
    ELSE LET inst == cfg.instances[j] IN
         IF "image" \notin Fields(inst)
         THEN Raised("ConfigurationError", inst.name)
         ELSE IF ~(Fields(inst) \subseteq AcceptedFields)
              THEN Raised("ConfigurationError", inst.name)
              ELSE ValidateFrom(cfg, j + 1)

validate_config(cfg) ==
    IF ~cfg.truthy THEN Raised("ConfigurationError", "")
    ELSE IF ~cfg.has_instances THEN Raised("ConfigurationError", "")
         ELSE ValidateFrom(cfg, 1)

\* a value that is not a mapping, under the key "copy" of a step
Scalar == [scalar |-> "value"]

IsMapping(v) == "scalar" \notin DOMAIN v

\* a step that is a number
IntStep == [form |-> "int", lines |-> <<>>, keys |-> {}, copy |-> NoCopy, ssh |-> NoSsh]

WellFormedSteps ==
    { StrStep(CommandText), CopyStep(SimpleCopy), SshStep(SshArgs("true", Unset, Unset)) }

MalformedSteps ==
    { IntStep, CopyAndSsh, MapStep({"unknown"}, NoCopy, NoSsh),
      MapStep({"copy"}, Scalar, NoSsh) }

ValidateProvisions ==
    { NoProvision,
      [form |-> "str", steps |-> <<StrStep(CommandText)>>],
      [form |-> "int", steps |-> <<>>],
      [form |-> "list", steps |-> <<>>] }
    \cup { [form |-> "list", steps |-> <<a>>] : a \in WellFormedSteps \cup MalformedSteps }
    \cup { [form |-> "list", steps |-> <<a, b>>] : a \in WellFormedSteps, b \in MalformedSteps }

ValidateDatas ==
    { [image |-> im, vm |-> Unset, wait |-> Unset, provision |-> pr,
       shared_folder |-> Unset] : im \in {Unset, "img"}, pr \in ValidateProvisions }
    \cup { [image |-> "img", vm |-> Unset, wait |-> Unset, provision |-> NoProvision,
            shared_folder |-> Unset, memory |-> "2GiB"] }

ValidateConfigs ==
    { [truthy |-> FALSE, has_instances |-> FALSE, instances |-> <<>>],
      [truthy |-> TRUE,  has_instances |-> FALSE, instances |-> <<>>],
      [truthy |-> TRUE,  has_instances |-> TRUE,  instances |-> <<>>] }
    \cup { [truthy |-> TRUE, has_instances |-> TRUE,
            instances |-> <<Named(Names[1], d)>>] : d \in ValidateDatas }
    \cup { [truthy |-> TRUE, has_instances |-> TRUE,
            instances |-> <<Named(Names[1], d), Named(Names[2], e)>>] :
              d \in ValidateDatas, e \in ValidateDatas }

InitValidate ==
    /\ config_data \in ValidateConfigs
    /\ op = "validate_config"
    /\ name = NoName
    /\ verbose = TRUE
    /\ pc = "validate"
    /\ where = ""
    /\ i = 0
    /\ step = 0
    /\ shift = TRUE
    /\ outer = 0
    /\ attempt = 0
    /\ log = <<>>
    /\ result = NoResult
    /\ faults = 0
    /\ budget = MaxFaults

Validate ==
    /\ pc = "validate"
    /\ Move(Done(validate_config(config_data)))
    /\ UNCHANGED <<static, faults>>

NextValidate == Validate

SpecValidate == InitValidate /\ [][NextValidate]_vars

\* the step types of the configuration format
StepTypes == {"copy", "ssh"} \cup RegisteredTags

WellFormedStep(st) ==
    \/ st.form = "str"
    \/ /\ st.form = "map"
       /\ Cardinality(st.keys) = 1
       /\ st.keys \subseteq StepTypes
       /\ "copy" \in st.keys => IsMapping(st.copy)

WellFormedProvision(pr) ==
    /\ pr.form \in {Unset, "str", "list"}
    /\ \A s \in 1..Len(pr.steps) : WellFormedStep(pr.steps[s])

\* every instance has an image and accepted fields only
InstancesAccepted ==
    /\ ValidConfig
    /\ \A j \in 1..NumInstances :
          /\ "image" \in Fields(Instances[j])
          /\ Fields(Instances[j]) \subseteq AcceptedFields

\* C23: validation rejects with ConfigurationError every configuration
\* with a provision value that is neither a string nor a list, or with a
\* step that is a copy with a non-mapping value, a mapping with more than
\* one key, or a mapping with an unknown type key; it accepts a provision
\* value that is a string or a list of well-formed steps.
C23_ProvisionValidated ==
    (pc = "done" /\ InstancesAccepted)
    => IF \A j \in 1..NumInstances : WellFormedProvision(Instances[j].provision)
       THEN result = Ok
       ELSE result.status = "raised" /\ result.exc = "ConfigurationError"

(***************************************************************************)
(* IncusCLI._run_command (incus_cli.py:25-51) called on its own with every *)
(* combination of its keyword arguments, over the exit codes and outputs   *)
(* of the external command.                                                *)
(***************************************************************************)
IncusCmd == "incus"

\* " ".join(parts)
RECURSIVE Join(_)
Join(parts) ==
    IF Len(parts) <= 1 THEN parts
    ELSE <<Head(parts), " ">> \o Join(Tail(parts))

\* str.strip() of the error outputs below
Strip(text) == IF text = "err\n" THEN "err" ELSE text

Commands ==
    { <<"project", "get-current">>, <<"delete", "--force", "a">>,
      <<"exec", "a", "--", "true">> }

RunArgs ==
    [ command : Commands, capture_output : BOOLEAN,
      allow_failure : BOOLEAN, quiet : BOOLEAN ]

Stdouts == {"", "out"}

Stderrs == {"", "err\n"}

\* the exception object: its message and its attribute command
Exc(exc, message, command) ==
    [k |-> "raise", what |-> exc, inst |-> "", args |-> <<message, command>>,
     res |-> ""]

Echo(style, text) ==
    [k |-> "msg", what |-> style, inst |-> "", args |-> <<text>>, res |-> ""]

\* what subprocess.run hands back of an output stream
Captured(a, text) == IF a.capture_output THEN text ELSE "None"

ErrorMessage(a, stderr) ==
    IF a.capture_output THEN <<"Failed: ", Strip(stderr)>>
    ELSE <<"Command ">> \o Join(<<IncusCmd>> \o a.command) \o <<" failed">>

\* the except branch of _run_command, always raising
OnCalledProcessError_strict(a, stdout, stderr) ==
    Emit(<<Exc("IncusCommandError", ErrorMessage(a, stderr),
               Join(<<IncusCmd>> \o a.command))>>,
         Done(Raised("IncusCommandError", "")))

\* the except branch of _run_command (incus_cli.py:42-51)
OnCalledProcessError(a, stdout, stderr) ==
    IF a.allow_failure
    THEN Emit(<<Echo("error", ErrorMessage(a, stderr))>>,
              Done(Returned(Captured(a, stdout))))
    ELSE Emit(<<Exc("IncusCommandError", ErrorMessage(a, stderr),
                    Join(<<IncusCmd>> \o a.command))>>,
              Done(Raised("IncusCommandError", "")))

SubprocessRun(a, code, stdout, stderr) ==
    CmdA("subprocess.run", "",
         <<<<IncusCmd>> \o a.command, Str(Captured(a, stdout)),
           Str(Captured(a, stderr))>>,
         IF code = 0 THEN "exit 0" ELSE "exit 1")

InitRun ==
    /\ config_data \in { c \in Configs : ~c.truthy }
    /\ op = "_run_command"
    /\ name = NoName
    /\ verbose = TRUE
    /\ pc = "run"
    /\ where = ""
    /\ i = 0
    /\ step = 0
    /\ shift = TRUE
    /\ outer = 0
    /\ attempt = 0
    /\ \E a \in RunArgs : log = <<CallA("_run_command", "", <<a>>)>>
    /\ result = NoResult
    /\ faults = 0
    /\ budget = MaxFaults

RunCommand ==
    /\ pc = "run"
    /\ LET a == log[1].args[1] IN
       \E code \in ExitCodes, stdout \in Stdouts, stderr \in Stderrs :
          Move(Emit((IF a.quiet THEN <<>>
                     ELSE <<Echo("info", <<"-> ">> \o Join(<<IncusCmd>> \o a.command))>>)
                    \o <<SubprocessRun(a, code, stdout, stderr)>>,
                    IF code = 0
                    THEN Done(Returned(Captured(a, stdout)))
                    ELSE OnCalledProcessError(a, stdout, stderr)))
    /\ UNCHANGED <<static, faults>>

NextRun == RunCommand

SpecRun == InitRun /\ [][NextRun]_vars

\* the arguments of the call and the run of the external command
RunCall == log[1].args[1]

RunOf(k) == log[k].k = "cmd" /\ log[k].what = "subprocess.run"

\* C24: when the external command exits non-zero and allow_failure is not
\* set, _run_command raises IncusCommandError whose attribute command is
\* the failing command line; when allow_failure is set it does not raise
\* on a non-zero exit: it prints the error and returns the standard output
\* captured from the command.
C24_RunCommand ==
    \A k \in Idx :
        (RunOf(k) /\ log[k].res # "exit 0")
        => IF RunCall.allow_failure
           THEN /\ result.status = "ok"
                /\ <<result.ret>> = log[k].args[2]
                /\ \A m \in Idx : log[m].k # "raise"
                /\ \E m \in (k + 1)..Len(log) :
                      log[m].k = "msg" /\ log[m].what = "error"
           ELSE /\ result = Raised("IncusCommandError", "")
                /\ \E m \in (k + 1)..Len(log) :
                      /\ log[m].k = "raise" /\ log[m].what = "IncusCommandError"
                      /\ log[m].args[2] = Join(log[k].args[1])
                /\ \A m \in Idx : ~(log[m].k = "msg" /\ log[m].what = "error")

C24_Witness ==
    /\ pc = "done"
    /\ \E k \in Idx : RunOf(k) /\ log[k].res = "exit 1" /\ log[k].args[2] = <<"out">>
    /\ RunCall.allow_failure
    /\ result = Returned("out")

\* ---------------------------------------------------------------------
\* Failures of the installation command of the remote-access setup

IsInstall(k) ==
    log[k].k = "cmd" /\ log[k].what = "exec sh -c" /\ log[k].args = InstallCommand

\* the number of steps of instance n started up to position k
StepsStarted(n, k) ==
    Cardinality({ m \in 1..k : log[m].k = "call" /\ log[m].inst = n })

\* the later actions of the remote-access setup
IsSshLater(e) ==
    \/ e.k = "cmd" /\ e.what = "exec mkdir"
    \/ e.k = "cmd" /\ e.what = "file push" /\ e.args = KeysPushCommand(e.inst)
    \/ e.k = "local" /\ e.what \in {"mkstemp keys", "ssh-keygen -R", "ssh"}

\* C26: when the installation command fails because the guest has no
\* apt-get, the setup reports the unsupported case and returns without
\* raising; it creates no credential directory, pushes no authorized keys
\* and cleans no known hosts; the remaining steps of the instance still
\* run.
C26_UnsupportedIsSkipped ==
    \A k \in Idx :
        (IsInstall(k) /\ log[k].res = "fail no apt")
        => LET n == log[k].inst
               j == PosOf(n)
               last == StepsStarted(n, k) = Len(Instances[j].provision.steps)
           IN /\ Len(log) >= k + 2
              /\ log[k + 1] = Msg("Failed to install SSH server", n)
              /\ log[k + 2] = Ret("ssh_setup", n, "ok")
              /\ ~last => /\ Len(log) >= k + 3
                          /\ log[k + 3].k = "call" /\ log[k + 3].inst = n
              /\ (last /\ NextTarget(j + 1) > NumInstances)
                     => pc = "done" /\ result = Ok
              /\ \A m \in (k + 1)..Len(log) :
                    (log[m].inst = n /\ IsSshLater(log[m]))
                    => \E c \in (k + 1)..m : log[c] = CallA("ssh_setup", n, log[c].args)

C26_Witness ==
    /\ pc = "done" /\ result = Ok
    /\ \E k \in Idx :
          /\ IsInstall(k) /\ log[k].res = "fail no apt"
          /\ \E m \in (k + 1)..Len(log) :
                log[m] = CmdA("exec sh -c", log[k].inst, log[m].args, "ok")

\* C27: when the guest has apt-get and the installation command itself
\* fails, the setup raises the command error of the failure instead of
\* reporting an unsupported package manager and returning.
C27_InstallErrorRaised ==
    \A k \in Idx :
        (IsInstall(k) /\ log[k].res = "fail apt")
        => /\ pc = "done"
           /\ result = Raised("IncusCommandError", log[k].inst)
           /\ \A m \in (k + 1)..Len(log) :
                 log[m] # Msg("Failed to install SSH server", log[k].inst)

(***************************************************************************)
(* The seven commands of the command line (cli.py:33-111) with the exit    *)
(* code of the process, over the configurations without shared folder.    *)
(* list, dump and init run no external command; init is built with        *)
(* no_config=True and never reads the configuration.                      *)
(***************************************************************************)
CliOps == Ops \cup {"list", "dump", "init"}

CliConfigs ==
    { c \in Configs :
        \A j \in 1..Len(c.instances) : ~WantsSharedFolder(c.instances[j]) }

\* the line of list_instances for instance j, none for an instance
\* without image
ListLine_skipping(j) ==
    IF Instances[j].image = Unset THEN <<>> ELSE <<Echo("echo", Str(NameOf(j)))>>

\* click.echo(f"{instance_name}") (incant.py:264)
ListLine(j) == <<Echo("echo", Str(NameOf(j)))>>

\* the loop of list_instances (incant.py:263-264), from instance j on
RECURSIVE ListOutput(_)
ListOutput(j) ==
    IF j > NumInstances THEN <<>>
    ELSE ListLine(j) \o ListOutput(j + 1)

CliInvoke ==
    /\ pc = "idle"
    /\ \E o \in CliOps, n \in NameArgs :
          /\ o \in {"list", "dump", "init"} => n = NoName
          /\ op' = o
          /\ name' = n
          /\ pc' = CASE o = "dump" -> "dump"
                     [] o = "init" -> "init"
                     [] OTHER -> "check"
    /\ UNCHANGED <<config_data, verbose, where, i, step, shift, outer, attempt,
                   log, result, faults, budget>>

\* Incant.list_instances after check_config (incant.py:259-264)
ListInstances ==
    /\ pc = "resolve" /\ op = "list"
    /\ Move(Emit(ListOutput(1), Done(Ok)))
    /\ UNCHANGED <<static, faults>>

\* what dump_config does when yaml.dump has raised or not (incant.py:101-104)
DumpOutcome(raised) ==
    IF raised
    THEN Emit(<<Local("yaml.dump raises", ""),
                Echo("error", Str("Error dumping configuration"))>>, Done(Ok))
    ELSE Emit(<<Local("yaml.dump", "")>>, Done(Ok))

\* Incant.dump_config (incant.py:98-104)
DumpConfig ==
    /\ pc = "dump"
    /\ \/ /\ ~config_data.truthy
          /\ Move(Done(Raised("ConfigurationError", "")))
       \/ /\ config_data.truthy
          /\ \E raised \in BOOLEAN : Move(DumpOutcome(raised))
    /\ UNCHANGED <<static, faults>>

\* incant_init writing whether or not the file exists
InitOutcome_overwrite(exists, writable) ==
    Emit(<<Local(IF exists THEN "exists incant.yaml" ELSE "absent incant.yaml", "")>>,
         IF writable
         THEN Emit(<<Local("write incant.yaml", ""),
                     Echo("print", Str("Example configuration written to incant.yaml"))>>,
                   Done(Ok))
         ELSE Done(Raised("OSError", "")))

\* incant.py:300-310: the existence test, then open(config_path, "w")
InitOutcome(exists, writable) ==
    Emit(<<Local(IF exists THEN "exists incant.yaml" ELSE "absent incant.yaml", "")>>,
         IF exists THEN Done(Raised("IncantError", ""))
         ELSE IF writable
              THEN Emit(<<Local("write incant.yaml", ""),
                          Echo("print", Str("Example configuration written to incant.yaml"))>>,
                        Done(Ok))
              ELSE Done(Raised("OSError", "")))

\* Incant.incant_init (incant.py:266-310)
IncantInit ==
    /\ pc = "init"
    /\ \E exists \in BOOLEAN, writable \in BOOLEAN : Move(InitOutcome(exists, writable))
    /\ UNCHANGED <<static, faults>>

\* the end of the process
ExitEntry(how, code) ==
    [k |-> "exit", what |-> how, inst |-> "", args |-> <<>>,
     res |-> IF code = 0 THEN "exit 0" ELSE "exit 1"]

\* cli.py:24-42: a command catches IncantError and calls _handle_error,
\* which prints the error and calls sys.exit(1); any other exception leaves
\* the command uncaught and the interpreter ends with a traceback and exit
\* code 1; a command that returns ends with exit code 0
ExitOf(res) ==
    IF res.status # "raised" THEN <<ExitEntry("return", 0)>>
    ELSE IF IsSubclass(res.exc, "IncantError")
         THEN <<Echo("error", Str("Error: ")), ExitEntry("sys.exit", 1)>>
         ELSE <<ExitEntry("uncaught", 1)>>

Exit ==
    /\ pc = "done"
    /\ pc' = "exited"
    /\ log' = log \o ExitOf(result)
    /\ UNCHANGED <<static, faults, where, i, step, shift, outer, attempt, result>>

InitCli ==
    /\ config_data \in CliConfigs
    /\ op = "none"
    /\ name = NoName
    /\ verbose = TRUE
    /\ pc = "idle"
    /\ where = ""
    /\ i = 0
    /\ step = 0
    /\ shift = TRUE
    /\ outer = 0
    /\ attempt = 0
    /\ log = <<>>
    /\ result = NoResult
    /\ faults = 0
    /\ budget = MaxFaults

NextCli ==
    \/ CliInvoke
    \/ CheckConfig
    \/ UpResolve
    \/ ProvisionResolve
    \/ DestroyResolve
    \/ ShellResolve
    \/ ListInstances
    \/ DumpConfig
    \/ IncantInit
    \/ Launch
    \/ GetCurrentProject
    \/ Query
    \/ ExecTrue
    \/ Which
    \/ Systemctl
    \/ ProvExec
    \/ ProvPush
    \/ ProvScriptExec
    \/ CopyPush
    \/ Delete
    \/ Shell
    \/ Exit

SpecCli == InitCli /\ [][NextCli]_vars

\* ---------------------------------------------------------------------
\* Exit codes, list, init and destroy

Ended == pc \in {"done", "exited"}

\* the operation failed with an error reported to the user: it raised, or
\* dump printed that the configuration could not be dumped
OperationFailed ==
    \/ result.status = "raised"
    \/ \E k \in Idx : log[k].k = "local" /\ log[k].what = "yaml.dump raises"

\* C25: every command ends with exit code 1 when its operation failed with
\* an error reported to the user, whatever the kind of error, and with
\* exit code 0 when it completed without error.
C25_ExitCodes ==
    pc = "exited"
    => log[Len(log)].res = (IF OperationFailed THEN "exit 1" ELSE "exit 0")

ListEchoes == SelectSeq(log, LAMBDA e : e.k = "msg" /\ e.what = "echo")

\* C28: list issues no external command, and when it completes its output
\* is the configured instance names in the order of the configuration,
\* each name once.
C28_ListInOrder ==
    op = "list"
    => /\ \A k \in Idx : ~IsCmd(k)
       /\ (Ended /\ ValidConfig)
             => /\ result = Ok
                /\ ListEchoes = [j \in 1..NumInstances |-> Echo("echo", Str(NameOf(j)))]

C28_Witness ==
    /\ op = "list" /\ pc = "exited"
    /\ NumInstances = 2
    /\ Len(ListEchoes) = 2
    /\ \E j \in 1..NumInstances : Instances[j].image = Unset

HasLocal(what) == \E k \in Idx : log[k].k = "local" /\ log[k].what = what

\* C29: when incant.yaml exists, init fails with IncantError and does not
\* write the file; it writes the example file only when none exists.
C29_InitNeverOverwrites ==
    (op = "init" /\ Ended)
    => /\ HasLocal("exists incant.yaml")
             => /\ result = Raised("IncantError", "")
                /\ ~HasLocal("write incant.yaml")
       /\ HasLocal("write incant.yaml") = (result = Ok)
       /\ HasLocal("write incant.yaml") => HasLocal("absent incant.yaml")

C29_Witness ==
    /\ op = "init" /\ pc = "exited"
    /\ HasLocal("exists incant.yaml")
    /\ result = Raised("IncantError", "")
    /\ log[Len(log)].res = "exit 1"

\* C30: when the force-delete command of an instance fails, destroy does
\* not raise: it goes on to probe the next targeted instance, and ends
\* without error when there is none.
C30_DeleteBestEffort ==
    \A k \in Idx :
        (IsCmd(k) /\ log[k].what = "delete --force" /\ log[k].res = "fail")
        => LET nx == NextTarget(PosOf(log[k].inst) + 1) IN
           IF nx > NumInstances
           THEN Ended /\ result = Ok
           ELSE /\ Len(log) > k
                /\ log[k + 1] = Call("is_instance", NameOf(nx))

C30_Witness ==
    \E k \in Idx :
        /\ IsCmd(k) /\ log[k].what = "delete --force" /\ log[k].res = "fail"
        /\ \E m \in (k + 1)..Len(log) :
              /\ IsCmd(m) /\ log[m].what = "delete --force"
              /\ log[m].inst # log[k].inst

\* ---------------------------------------------------------------------
\* The readiness waits of up

\* an answer of a poll that says "not yet": the agent is not running, the
\* agent is not usable yet, the init system has not finished booting
NotYet(e) ==
    /\ e.k = "cmd"
    /\ \/ e.what = "query" /\ e.res = "procs<=0"
       \/ e.what = "exec true" /\ e.res = "fail_agent"
       \/ e.what = "exec systemctl is-system-running" /\ ~Booted(e.res)

IsPollCall(e) ==
    e.k = "call" /\ e.what \in {"is_agent_running", "is_instance_ready"}

\* C31: the waits of up never give up and never proceed early: after a
\* poll that answers "not yet" the same instance is polled again (there is
\* no timeout and no other way out of the wait), and the stages after a wait
\* are entered only after a poll in which the agent was running and usable
\* and, after the full-boot wait, the instance was fully ready.
C31_WaitsNeverGiveUp ==
    op = "up" =>
        \A k \in Idx :
            /\ NotYet(log[k])
                  => \E m \in (k + 1)..Len(log) :
                        /\ m <= k + 2
                        /\ IsPollCall(log[m]) /\ log[m].inst = log[k].inst
            /\ (log[k].k = "call"
                /\ log[k].what \in {"is_instance_ready", "create_shared_folder", "provision"})
                  => AgentSeenBefore(log[k].inst, k)
            /\ (log[k].k = "call"
                /\ log[k].what \in {"create_shared_folder", "provision"}
                /\ FullWait(Instances[PosOf(log[k].inst)]))
                  => \E m \in 1..(k - 1) :
                        log[m].k = "ret" /\ log[m].what = "is_instance_ready"
                        /\ log[m].inst = log[k].inst /\ log[m].res = "true"

\* ---------------------------------------------------------------------
\* The stages of the readiness check

IsExecTrue(k) == IsCmd(k) /\ log[k].what = "exec true"

ReadyReturnsAt(k, v) ==
    /\ k <= Len(log)
    /\ log[k] = Ret("is_instance_ready", log[k].inst, v)

\* C34: the agent-usable stage returns true when the no-op command
\* succeeds, returns false (so that the readiness check returns false) when
\* the command fails with exactly the error of an agent that is not
\* running, and re-raises every other command error.
C34_AgentUsableStage ==
    \A k \in Idx :
        IsExecTrue(k)
        => CASE log[k].res = "ok" ->
                  /\ ~ReadyReturnsAt(k + 1, "false")
                  /\ k = Len(log) => result.status # "raised"
             [] log[k].res = "fail_agent" ->
                  /\ ReadyReturnsAt(k + 1, "false")
                  /\ result.status # "raised"
             [] OTHER ->
                  /\ k = Len(log)
                  /\ result = Raised("IncusCommandError", log[k].inst)

IsWhich(k) == IsCmd(k) /\ log[k].what = "exec which systemctl"

IsStatus(k) == IsCmd(k) /\ log[k].what = "exec systemctl is-system-running"

C36_ShortCircuit ==
    \A k \in Idx :
        /\ (log[k].k = "call" /\ log[k].what = "is_instance_ready")
              => /\ k = Len(log) => pc = "proj"
                 /\ k < Len(log)
                       => log[k + 1].k = "cmd" /\ log[k + 1].what = "project get-current"
                 /\ (k + 1 < Len(log) /\ log[k + 1].res = "ok")
                       => log[k + 2].k = "cmd" /\ log[k + 2].what = "query"
        /\ (IsCmd(k) /\ log[k].what = "query" /\ log[k].res = "procs<=0")
              => ReadyReturnsAt(k + 1, "false")
        /\ (IsExecTrue(k) /\ log[k].res = "fail_agent")
              => ReadyReturnsAt(k + 1, "false")

\* ---------------------------------------------------------------------
\* The rounds of shared-folder establishment

\* the last add that succeeded before position k
LastOkAdd(k) ==
    CHOOSE m \in 1..(k - 1) :
        /\ IsDeviceAdd(m) /\ log[m].res = "ok"
        /\ \A q \in (m + 1)..(k - 1) : ~(IsDeviceAdd(q) /\ log[q].res = "ok")

\* C32, as stated: after a removal the device is added again with the
\* ownership-mapping flag, and when that add fails an add without the flag
\* follows.
C32_ReattachRepeatsSteps ==
    \A k \in Idx :
        (IsDeviceRemove(k) /\ log[k].res = "ok" /\ k < Len(log))
        => /\ log[k + 1].what = AddVerb(TRUE)
           /\ log[k + 1].res = "fail"
                 => /\ pc = "done" => k + 1 < Len(log)
                    /\ k + 1 < Len(log) => log[k + 2].what = AddVerb(FALSE)

\* C32, amended: after a removal the device is added again by the very
\* command that last succeeded (with the flag if the optimistic add
\* succeeded, without it if the fallback was used), and a failure of that
\* add is not retried: it ends the establishment with the command error.
C32_ReattachSameCommand ==
    \A k \in Idx :
        (IsDeviceRemove(k) /\ log[k].res = "ok")
        => /\ k = Len(log) => pc = "sf_readd"
           /\ k < Len(log)
                 => /\ IsDeviceAdd(k + 1)
                    /\ log[k + 1].what = log[LastOkAdd(k)].what
                    /\ log[k + 1].res = "fail"
                          => /\ k + 1 = Len(log)
                             /\ result = Raised("IncusCommandError", log[k].inst)

C32_Witness ==
    \E k \in Idx :
        /\ IsDeviceRemove(k) /\ log[k].res = "ok"
        /\ k + 1 < Len(log)
        /\ log[k + 1] = Cmd(AddVerb(FALSE), log[k].inst, "ok")
        /\ IsMountCheck(k + 2)
        /\ \E m \in 1..k : log[m] = Cmd(AddVerb(TRUE), log[k].inst, "fail")

Removals == Cardinality({ k \in Idx : IsDeviceRemove(k) })

MountChecks == Cardinality({ k \in Idx : IsMountCheck(k) })

SfFinished == pc = "done" /\ result.status \in {"ok", "raised"}

\* the establishment under the scheduling of a sequential program: the
\* next command is always issued
SpecSfFair == InitSf /\ [][NextSf]_vars /\ WF_vars(NextSf)

\* C33: shared-folder establishment always terminates: it never performs
\* more than 10 device removals nor more than 30 mount checks, and it
\* eventually returns success or raises.
C33_AlwaysTerminates ==
    /\ [](Removals <= OuterAttempts /\ MountChecks <= OuterAttempts * QuickChecks)
    /\ <>SfFinished

C33_Witness ==
    /\ SfFinished
    /\ Removals = OuterAttempts
    /\ MountChecks = OuterAttempts * QuickChecks

\* C40: when the establishment fails with InstanceError, its last command
\* was a device add that succeeded and that no mount check followed: the
\* device is left attached.
C40_FinalAddUnverified ==
    (op = "create_shared_folder" /\ result.status = "raised" /\ result.exc = "InstanceError")
    => /\ Len(log) > 1
       /\ IsDeviceAdd(Len(log)) /\ log[Len(log)].res = "ok"
       /\ IsDeviceRemove(Len(log) - 1)
       /\ Attached(log[Len(log)].inst) = 1
       /\ Removals = OuterAttempts

C40_Witness ==
    /\ op = "create_shared_folder"
    /\ result = Raised("InstanceError", "")
    /\ IsDeviceAdd(Len(log)) /\ log[Len(log)].res = "ok"
    /\ MountChecks = OuterAttempts * QuickChecks

\* ---------------------------------------------------------------------
\* The instances an invocation touches

LaunchesOf(n) == Cardinality({ k \in Idx : IsLaunch(k) /\ log[k].inst = n })

\* C37: in up, every command of pass 2 (readiness query, command in the
\* instance, device add, provisioning) addresses an instance for which
\* pass 1 issued a launch; an instance skipped for lack of an image is not
\* polled.
C37_PassTwoOnlyLaunched ==
    op = "up" =>
        \A k \in Idx :
            (IsCmd(k) /\ ~IsLaunch(k))
            => \E m \in 1..(k - 1) : IsLaunch(m) /\ log[m].inst = log[k].inst

\* C38: when up, provision or destroy is given a name, every external
\* command of the invocation addresses that instance.
C38_OnlyNamedInstance ==
    (op \in {"up", "provision", "destroy"} /\ name # NoName)
    => \A k \in Idx : IsCmd(k) => log[k].inst = name

C38_Witness ==
    /\ op \in {"up", "destroy"}
    /\ name = "a"
    /\ NumInstances = 2
    /\ pc = "done" /\ result = Ok
    /\ \E k \in Idx : IsCmd(k) /\ log[k].inst = "a"

\* C39: up issues no command for an instance before its launch, launches
\* each targeted instance with an image exactly once (no instance twice,
\* none without image), and a failed launch is the last thing up does.
C39_LaunchWithoutProbe ==
    op = "up" =>
        /\ \A j \in 1..NumInstances :
              /\ LaunchesOf(NameOf(j)) <= 1
              /\ (j \notin Targets \/ ~Truthy(Instances[j].image))
                    => LaunchesOf(NameOf(j)) = 0
              /\ (pc = "done" /\ result = Ok /\ j \in Targets /\ Truthy(Instances[j].image))
                    => LaunchesOf(NameOf(j)) = 1
        /\ \A k \in Idx :
              IsLaunch(k)
              => /\ \A m \in 1..(k - 1) : IsCmd(m) => log[m].inst # log[k].inst
                 /\ \A m \in 1..(k - 1) : IsCmd(m) => IsLaunch(m)
                 /\ log[k].res = "fail"
                       => /\ k = Len(log)
                          /\ result = Raised("IncusCommandError", log[k].inst)

C39_Witness ==
    /\ op = "up"
    /\ Len(log) > 2
    /\ log[Len(log)] = Cmd("launch", "b", "fail")
    /\ \E m \in Idx : log[m] = Cmd("launch", "a", "ok")
    /\ result = Raised("IncusCommandError", "b")

====
